---- MODULE Spec2Model ----
(***************************************************************************)
(* Resonance AI Host (backend): the conversation memory with its           *)
(* tool-chain sanitizer (backend/core/memory.py), the orchestrator turn    *)
(* HostAgent.chat (backend/core/host_agent.py) and the thread-to-loop      *)
(* bridge of the server (backend/server.py).                               *)
(*                                                                         *)
(* Two specifications:                                                     *)
(*   SpecMem  one ConversationMemory: any sequence of its append           *)
(*            operations, then get_active_context.                         *)
(*   Spec     the server: turns submitted over the WebSocket, the          *)
(*            synchronous HTTP chat and sentinel reactions, each running   *)
(*            chat() on a worker thread; /stop; the event pipeline.        *)
(***************************************************************************)
EXTENDS Integers, Sequences, FiniteSets, TLC

(***************************************************************************)
(* Bounds of the model.                                                    *)
(***************************************************************************)
\* longest session log built in SpecMem; window_size ranges over 1..MaxLog
MaxLog == 3

\* the tool call ids the LLM uses
Ids == {"c1", "c2"}

\* value of the id key of a message dict that does not carry it
NoKey == 0
\* value of the tool_call_id key of a message dict that does not carry it
NoCall == ""

(***************************************************************************)
(* Messages.  A dict of the log is a record; `id` is the non-wire key      *)
(* _append_message adds (with timestamp, which the model folds into it),   *)
(* NoKey when the dict has none.  Contents are abstracted to the strings   *)
(* the code tests or writes.                                               *)
(***************************************************************************)
\* content written by the mid-sequence repair of _sanitize_context
RecoveredMid == "Error: Tool execution was interrupted. System recovered."
\* content written by the end-of-log repair of _sanitize_context
RecoveredEnd == "Error: Tool sequence incomplete at log end."

\* a message dict
Msg(role, content, calls, tcid) ==
    [role |-> role, content |-> content, tool_calls |-> calls,
     tool_call_id |-> tcid, id |-> NoKey]

\* the tool_calls lists an assistant message carries: one or two calls
CallLists == {<<i>> : i \in Ids} \cup {<<i, j>> : i \in Ids, j \in Ids}

\* the dict add_user_message hands to _append_message
UserMsg == Msg("user", "text", <<>>, NoCall)
\* the dict add_ai_message hands to _append_message
AiMsg(content) == Msg("assistant", content, <<>>, NoCall)
\* the dict add_ai_tool_call hands to _append_message
AiToolCallMsg(content, calls) == Msg("assistant", content, calls, NoCall)
\* the dict add_tool_message hands to _append_message
ToolMsg(content, tcid) == Msg("tool", content, <<>>, tcid)
\* the dict add_system_message hands to _append_message
SystemMsg(content) == Msg("system", content, <<>>, NoCall)

\* _append_message at time `now`: stamps the dict and appends it to the log
AppendMessage(history, message, now) ==
    Append(history, IF message.id = NoKey THEN [message EXCEPT !.id = now] ELSE message)

(***************************************************************************)
(* Sequence helpers (Python list operations).                              *)
(***************************************************************************)
\* tid in pending_ids
InSeq(x, s) == \E i \in 1..Len(s) : s[i] = x

\* list.remove(x): drops the first occurrence of x
RemoveFirst(s, x) ==
    LET i == CHOOSE k \in 1..Len(s) : s[k] = x /\ \A j \in 1..(k-1) : s[j] # x
    IN  SubSeq(s, 1, i-1) \o SubSeq(s, i+1, Len(s))

\* lst[-k:] for k >= 1
LastK(s, k) == IF Len(s) <= k THEN s ELSE SubSeq(s, Len(s)-k+1, Len(s))

\* the synthesized tool dicts, one per id of pending_ids, in list order
Synthesized(pending, content) ==
    [i \in 1..Len(pending) |-> Msg("tool", content, <<>>, pending[i])]

(***************************************************************************)
(* _sanitize_context: one pass of the for loop over a (sanitized,          *)
(* pending_ids) pair, then the check after the loop.                       *)
(***************************************************************************)
\* mutant: the matched tool id is not removed from pending_ids
SanitizeStepKeepPending(st, msg) ==
    IF msg.role = "tool"
    THEN IF InSeq(msg.tool_call_id, st.pending_ids)
         THEN [st EXCEPT !.sanitized = Append(@, msg)]
         ELSE st
    ELSE IF st.pending_ids # <<>>
    THEN [sanitized |-> Append(st.sanitized \o Synthesized(st.pending_ids, RecoveredMid), msg),
          pending_ids |-> IF msg.role = "assistant" /\ msg.tool_calls # <<>>
                          THEN msg.tool_calls ELSE <<>>]
    ELSE IF msg.role = "assistant" /\ msg.tool_calls # <<>>
    THEN [sanitized |-> Append(st.sanitized, msg), pending_ids |-> msg.tool_calls]
    ELSE [st EXCEPT !.sanitized = Append(@, msg)]

\* mutant: a tool message that answers no pending id is kept
SanitizeStepKeepOrphan(st, msg) ==
    IF msg.role = "tool"
    THEN IF InSeq(msg.tool_call_id, st.pending_ids)
         THEN [sanitized |-> Append(st.sanitized, msg),
               pending_ids |-> RemoveFirst(st.pending_ids, msg.tool_call_id)]
         ELSE [st EXCEPT !.sanitized = Append(@, msg)]
    ELSE IF st.pending_ids # <<>>
    THEN [sanitized |-> Append(st.sanitized \o Synthesized(st.pending_ids, RecoveredMid), msg),
          pending_ids |-> IF msg.role = "assistant" /\ msg.tool_calls # <<>>
                          THEN msg.tool_calls ELSE <<>>]
    ELSE IF msg.role = "assistant" /\ msg.tool_calls # <<>>
    THEN [sanitized |-> Append(st.sanitized, msg), pending_ids |-> msg.tool_calls]
    ELSE [st EXCEPT !.sanitized = Append(@, msg)]

\* mutant: the missing tool results are not inserted before a non-tool message
SanitizeStepNoInsert(st, msg) ==
    IF msg.role = "tool"
    THEN IF InSeq(msg.tool_call_id, st.pending_ids)
         THEN [sanitized |-> Append(st.sanitized, msg),
               pending_ids |-> RemoveFirst(st.pending_ids, msg.tool_call_id)]
         ELSE st
    ELSE IF st.pending_ids # <<>>
    THEN [sanitized |-> Append(st.sanitized, msg),
          pending_ids |-> IF msg.role = "assistant" /\ msg.tool_calls # <<>>
                          THEN msg.tool_calls ELSE <<>>]
    ELSE IF msg.role = "assistant" /\ msg.tool_calls # <<>>
    THEN [sanitized |-> Append(st.sanitized, msg), pending_ids |-> msg.tool_calls]
    ELSE [st EXCEPT !.sanitized = Append(@, msg)]

\* the body of `for msg in messages`
SanitizeStep(st, msg) ==
    IF msg.role = "tool"
    THEN \* 1. tool message: kept iff its id is pending, else dropped (orphan)
         IF InSeq(msg.tool_call_id, st.pending_ids)
         THEN [sanitized |-> Append(st.sanitized, msg),
               pending_ids |-> RemoveFirst(st.pending_ids, msg.tool_call_id)]
         ELSE st
    ELSE IF st.pending_ids # <<>>
    THEN \* 2. pending ids and a non-tool message: insert the missing results
         [sanitized |-> Append(st.sanitized \o Synthesized(st.pending_ids, RecoveredMid), msg),
          pending_ids |-> IF msg.role = "assistant" /\ msg.tool_calls # <<>>
                          THEN msg.tool_calls ELSE <<>>]
    ELSE IF msg.role = "assistant" /\ msg.tool_calls # <<>>
    THEN \* 3. assistant with tool calls
         [sanitized |-> Append(st.sanitized, msg), pending_ids |-> msg.tool_calls]
    ELSE \* 4. any other message
         [st EXCEPT !.sanitized = Append(@, msg)]

RECURSIVE SanitizeLoop(_, _)
\* the for loop, from the state st over the remaining messages
SanitizeLoop(st, messages) ==
    IF messages = <<>> THEN st
    ELSE SanitizeLoop(SanitizeStep(st, Head(messages)), Tail(messages))

\* mutant: nothing is appended for the ids still pending after the loop
SanitizeEndNone(st) == st.sanitized

\* 5. after the loop: one synthesized result per id still pending
SanitizeEnd(st) ==
    IF st.pending_ids # <<>>
    THEN st.sanitized \o Synthesized(st.pending_ids, RecoveredEnd)
    ELSE st.sanitized

\* ConversationMemory._sanitize_context
SanitizeContext(messages) ==
    IF messages = <<>> THEN <<>>
    ELSE SanitizeEnd(SanitizeLoop([sanitized |-> <<>>, pending_ids |-> <<>>], messages))

(***************************************************************************)
(* get_active_context: filter, window, sanitize, strip.                    *)
(***************************************************************************)
\* the system message chat() injects after an INCOMPLETE verdict whose
\* instruction is "Write the file."
SupervisorIntervention ==
    "[SUPERVISOR INTERVENTION]: Task not finished. Write the file. Continue executing the plan immediately."
\* the system message handle_sentinel_trigger writes
SentinelAlert == "[Sentinel Alert 2026-01-01 00:00:00]: Heartbeat"
\* a system message written by another component that names the Supervisor
SupervisorNote == "[Supervisor]: note"

\* the system contents of the model
SystemContents == {SupervisorIntervention, SentinelAlert, SupervisorNote}

\* the contents of the model in which the substring 'Supervisor' occurs
\* (the test is case-sensitive: 'SUPERVISOR' does not match)
SupervisorContents == {SupervisorNote}

\* `'Supervisor' in content` for the contents of the model
HasSupervisor(content) == content \in SupervisorContents

\* m.get('role') != 'system' or 'Supervisor' in m.get('content', '')
IsConversation(m) == m.role # "system" \/ HasSupervisor(m.content)

\* the messages get_active_context hands to _sanitize_context
ContextWindow(full_history, window_size) ==
    LastK(SelectSeq(full_history, IsConversation), window_size)

\* {k: v for k, v in msg.items() if k in allowed_keys}: timestamp and id go
CleanMsg(m) == [m EXCEPT !.id = NoKey]

\* mutant: the window is handed to the LLM without the repair
ActiveContextUnsanitized(full_history, window_size) ==
    LET w == ContextWindow(full_history, window_size)
    IN  [i \in 1..Len(w) |-> CleanMsg(w[i])]

\* ConversationMemory.get_active_context
ActiveContext(full_history, window_size) ==
    IF full_history = <<>> THEN <<>>
    ELSE LET sanitized == SanitizeContext(ContextWindow(full_history, window_size))
         IN  [i \in 1..Len(sanitized) |-> CleanMsg(sanitized[i])]

(***************************************************************************)
(* State.                                                                  *)
(***************************************************************************)
VARIABLES
    \* SpecMem: one ConversationMemory
    full_log,       \* the session's log file, a list of message dicts
    window_size,    \* ConversationMemory.window_size
    context,        \* the list the last get_active_context returned
    memPhase,       \* "open": the log is being written; "read": get_active_context has returned
    \* Spec: the server
    transcript,        \* session -> its log file (ConversationMemory of the session)
    interrupt_events,  \* HostAgent.interrupt_events: session -> "absent" | "clear" | "set"
    turn,              \* turn -> the worker running chat() for it: its position and locals
    loop_ready,        \* the event loop's FIFO of event_queue.put calls handed over by workers
    event_queue,       \* queue -> its events: 0 is the WebSocket connection's queue,
                       \* t the queue of the sentinel reaction that runs turn t
    client,            \* what the WebSocket client has received, in order
    llm_calls,         \* streams the LLM has served so far
    budget,            \* what the run's environment does at most (fixed at Init)
    \* history variables, read by the properties only
    yielded,           \* turn -> the events chat() has yielded
    wrote,             \* turn -> the messages the turn has appended to its transcript
    ac,                \* turn -> what the turn did after a cancel of its session reached it
    \* SpecLoop: the loops of one chat() call
    loop,              \* the worker's position, the loop variables, and what it has done
    \* SpecRag: the long-term memory store
    rag,               \* the collection, the BM25 cache, and what the searches returned
    \* SpecSkill: the skills and the tool manifest
    skill,              \* the loaded skills, the active skill, and the manifest last given to the LLM
    \* SpecSentinel: the Sentinel Engine and its file
    sentinel_engine,    \* the engine's sentinels, the persisted file, the clock, and what was added
    \* SpecSessions: the session files
    disk,               \* the session files, the memory cache, and the last session request
    \* SpecWs: one WebSocket connection
    ws,                 \* the socket's inbound handling: what was sent, the queue, the submitted tasks
    \* SpecAppend: concurrent appends to one session
    mem_log,            \* one session's log file and the threads appending to it
    \* SpecInterrupt: the cancel tokens of the agent
    agent,              \* HostAgent.interrupt_events and the last call made on it
    \* SpecTools: the tool loop of one ReAct iteration
    dispatch,           \* the tool calls of one LLM answer and how far their dispatch has come
    \* SpecPrompt: the messages of the LLM calls of one turn
    prompt,             \* one turn's messages list and what each LLM call was sent
    \* SpecRagThreads: the long-term memory store used by concurrent workers
    rag_store          \* the collection, the BM25 index and its cache, and each worker's position in its call

memVars == <<full_log, window_size, context, memPhase>>

srvVars == <<transcript, interrupt_events, turn, loop_ready, event_queue, client,
             llm_calls, budget, yielded, wrote, ac>>

\* the variables of the smaller specifications
auxVars == <<loop, rag, skill, sentinel_engine, disk, ws, mem_log, agent, dispatch, prompt, rag_store>>
\* what a step of each smaller specification leaves alone
loopRest == <<memVars, srvVars, rag, skill, sentinel_engine, disk, ws, mem_log, agent, dispatch, prompt, rag_store>>
ragRest == <<memVars, srvVars, loop, skill, sentinel_engine, disk, ws, mem_log, agent, dispatch, prompt, rag_store>>
skillRest == <<memVars, srvVars, loop, rag, sentinel_engine, disk, ws, mem_log, agent, dispatch, prompt, rag_store>>
engineRest == <<memVars, srvVars, loop, rag, skill, disk, ws, mem_log, agent, dispatch, prompt, rag_store>>
diskRest == <<memVars, srvVars, loop, rag, skill, sentinel_engine, ws, mem_log, agent, dispatch, prompt, rag_store>>
wsRest == <<memVars, srvVars, loop, rag, skill, sentinel_engine, disk, mem_log, agent, dispatch, prompt, rag_store>>
mem_logRest == <<memVars, srvVars, loop, rag, skill, sentinel_engine, disk, ws, agent, dispatch, prompt, rag_store>>
agentRest == <<memVars, srvVars, loop, rag, skill, sentinel_engine, disk, ws, mem_log, dispatch, prompt, rag_store>>
dispatchRest == <<memVars, srvVars, loop, rag, skill, sentinel_engine, disk, ws, mem_log, agent, prompt, rag_store>>
promptRest == <<memVars, srvVars, loop, rag, skill, sentinel_engine, disk, ws, mem_log, agent, dispatch, rag_store>>
rag_storeRest == <<memVars, srvVars, loop, rag, skill, sentinel_engine, disk, ws, mem_log, agent, dispatch, prompt>>

vars == <<memVars, srvVars, auxVars>>

\* the clock value _append_message reads (time does not advance in the model)
MemNow == 1

(***************************************************************************)
(* Bounds and constants of Spec.                                           *)
(***************************************************************************)
\* turns submitted in one run
MaxTurns == 2
\* streams the LLM serves in one run
MaxLlmCalls == 1
\* INCOMPLETE verdicts of the Supervisor per turn; the next verdict is COMPLETE
MaxIncomplete == 1
\* /stop messages the client sends in one run
MaxStops == 1

\* the runs explored: MaxTurns turns side by side that get no stream from the
\* LLM, or one turn in depth, or one turn that is not stopped and gets one
\* stream more
Budgets ==
    {[turns |-> MaxTurns, llm |-> 0, incomplete |-> 0, stops |-> MaxStops],
     [turns |-> 1, llm |-> MaxLlmCalls, incomplete |-> MaxIncomplete, stops |-> MaxStops],
     [turns |-> 1, llm |-> MaxLlmCalls + 1, incomplete |-> MaxIncomplete, stops |-> 0]}
\* nothing is submitted
NoBudget == [turns |-> 0, llm |-> 0, incomplete |-> 0, stops |-> 0]

\* chat(): MAX_TOOL_ITERATIONS
MAX_TOOL_ITERATIONS == 15
\* chat(): MAX_SUPERVISOR_LOOPS
MAX_SUPERVISOR_LOOPS == 3
\* HostAgent.get_memory: default window_size
DefaultWindow == 10

Turns == 1..MaxTurns

\* the session of sentinel reactions and the default of the WebSocket handler
MainSession == "resonance_main"
\* the sessions clients name
Sessions == {MainSession, "s1"}

\* the queue of the WebSocket connection
WsQueue == 0
Queues == {WsQueue} \cup Turns

\* session_id of an event dict that carries none
NoSession == ""

\* a turn that has not been submitted
IdleTurn ==
    [pc |-> "idle", session_id |-> MainSession, via |-> "none", consumer |-> "none",
     supervisor_loops |-> 0, current_iteration |-> 0, is_generation_finished |-> FALSE,
     response |-> <<>>, full_response_content |-> "", tool_calls_buffer |-> <<>>,
     tc |-> 0, tool_result_raw |-> "", stopped_at |-> "none"]

\* nothing counted: no cancel has reached the turn
NoCancelSeen == [on |-> FALSE, deltas |-> 0, tools |-> 0, writes |-> 0]

\* the server after startup: no turn, no cancel token, nothing in flight
SrvQuiet ==
    /\ transcript = [s \in Sessions |-> <<>>]
    /\ interrupt_events = [s \in Sessions |-> "absent"]
    /\ turn = [t \in Turns |-> IdleTurn]
    /\ loop_ready = <<>>
    /\ event_queue = [q \in Queues |-> <<>>]
    /\ client = <<>>
    /\ llm_calls = 0
    /\ yielded = [t \in Turns |-> <<>>]
    /\ wrote = [t \in Turns |-> <<>>]
    /\ ac = [t \in Turns |-> NoCancelSeen]

\* chat() has not been called
LoopIdle ==
    [pc |-> "idle", supervisor_loops |-> 0, current_iteration |-> 0,
     is_generation_finished |-> FALSE, stop |-> FALSE, tools_left |-> 0,
     invoked |-> 0, entries |-> 0, incomplete |-> 0, calls |-> 0]

\* no record, no search
RagIdle == [store |-> <<>>, cache |-> <<>>, returned |-> <<>>, ops |-> 0]

\* no skill loaded, none active
NoSkill == "<None>"
SkillIdle == [loaded_skills |-> {}, active_skill |-> NoSkill, before |-> NoSkill,
              result |-> "", current_tools |-> {}, fresh |-> FALSE, ops |-> 0,
              own |-> [s \in Sessions |-> NoSkill],
              dirs |-> {}, imported_skills |-> {},
              learned |-> [status |-> "", skill_name |-> NoSkill,
                           loaded_skills |-> {}, imported_skills |-> {}],
              built |-> [session_id |-> NoSession, own |-> NoSkill,
                         skill_section |-> [kind |-> "", skill |-> NoSkill]]]

\* SentinelEngine.__init__: no sentinel of any kind, not running
Kinds == {"time", "file", "behavior"}
NoSentinels == [k \in Kinds |-> {}]
NoFile == [exists |-> FALSE, data |-> NoSentinels]
\* no callback invoked yet
NoTrigger == [n |-> 0, kind |-> "", running |-> FALSE]
EngineIdle == [sentinels |-> NoSentinels, file |-> NoFile, running |-> FALSE,
               loaded |-> FALSE, clock |-> 0, added |-> {},
               at_shutdown |-> NoSentinels, restarts |-> 0, ops |-> 0,
               jobs |-> <<>>, watches |-> <<>>, hotkeys |-> <<>>,
               observing |-> FALSE, thread |-> "none", affected |-> "",
               last_trigger |-> NoTrigger]

\* no session file, nothing cached, no request yet
NoLog == [exists |-> FALSE, len |-> 0]
NoSummary == [exists |-> FALSE, version |-> 0]
NoFiles == [log |-> NoLog, summary |-> NoSummary, cached |-> FALSE]
NoRequest == [op |-> "none", session |-> NoSession, status |-> "", before |-> NoFiles]
DiskIdle == [log |-> [s \in Sessions |-> NoLog],
             summary |-> [s \in Sessions |-> NoSummary],
             memory_cache |-> {}, last |-> NoRequest]

\* a connection that has received nothing
WsIdle == [inbox |-> <<>>, sent |-> <<>>, event_queue |-> <<>>, ready |-> <<>>,
           tasks |-> <<>>, interrupt_events |-> [s \in Sessions |-> "absent"]]

\* a log file nobody appends to
MemLogIdle == [file |-> <<>>, now |-> 0, thread |-> <<>>, appended |-> <<>>]

\* an agent on which nothing was called
AgentIdle == [interrupt_events |-> <<>>, last |-> <<>>]

\* no tool call to dispatch
DispatchIdle == [pc |-> "idle", calls |-> <<>>, tc |-> 0, args |-> "", stop |-> FALSE,
                 tool_result_raw |-> "", yielded |-> <<>>, wrote |-> <<>>]

\* no turn whose prompt is followed
PromptIdle == [pc |-> "idle", log |-> <<>>, messages |-> <<>>, supervisor_loops |-> 0,
               current_iteration |-> 0, is_generation_finished |-> FALSE,
               calls |-> <<>>, tc |-> 0, reentered |-> FALSE,
               sent |-> [n |-> 0, messages |-> <<>>, context |-> <<>>, reentered |-> FALSE]]

\* the RAGStore before any worker uses it
Workers == {"w1", "w2"}
WorkerIdle == [op |-> "", pc |-> "idle", all_data |-> <<>>, idx |-> 0, scored |-> 0]
RagStoreIdle == [collection |-> <<>>, bm25_index |-> <<>>, memory_docs_cache |-> <<>>,
                 used |-> {}, worker |-> [w \in Workers |-> WorkerIdle],
                 mapped |-> [n |-> 0, scored |-> 0, id |-> 0], ops |-> 0]

\* the smaller specifications have not started
AuxQuiet == loop = LoopIdle /\ rag = RagIdle /\ skill = SkillIdle /\ sentinel_engine = EngineIdle /\ disk = DiskIdle /\ ws = WsIdle /\ mem_log = MemLogIdle /\ agent = AgentIdle /\ dispatch = DispatchIdle /\ prompt = PromptIdle /\ rag_store = RagStoreIdle

(***************************************************************************)
(* SpecMem: the operations of ConversationMemory on one session.           *)
(***************************************************************************)
MemInit ==
    /\ full_log = <<>>
    /\ window_size \in 1..MaxLog
    /\ context = <<>>
    /\ memPhase = "open"
    /\ budget = NoBudget
    /\ SrvQuiet
    /\ AuxQuiet

\* add_user_message
AddUserMessage ==
    /\ memPhase = "open" /\ Len(full_log) < MaxLog
    /\ full_log' = AppendMessage(full_log, UserMsg, MemNow)
    /\ UNCHANGED <<window_size, context, memPhase, srvVars, auxVars>>

\* add_ai_message: empty content is not saved
AddAiMessage ==
    /\ memPhase = "open" /\ Len(full_log) < MaxLog
    /\ \E content \in {"", "text"} :
          full_log' = IF content # "" THEN AppendMessage(full_log, AiMsg(content), MemNow)
                      ELSE full_log
    /\ UNCHANGED <<window_size, context, memPhase, srvVars, auxVars>>

\* add_ai_tool_call
AddAiToolCall ==
    /\ memPhase = "open" /\ Len(full_log) < MaxLog
    /\ \E calls \in CallLists :
          full_log' = AppendMessage(full_log, AiToolCallMsg("", calls), MemNow)
    /\ UNCHANGED <<window_size, context, memPhase, srvVars, auxVars>>

\* add_tool_message
AddToolMessage ==
    /\ memPhase = "open" /\ Len(full_log) < MaxLog
    /\ \E tcid \in Ids :
          full_log' = AppendMessage(full_log, ToolMsg("result", tcid), MemNow)
    /\ UNCHANGED <<window_size, context, memPhase, srvVars, auxVars>>

\* add_system_message
AddSystemMessage ==
    /\ memPhase = "open" /\ Len(full_log) < MaxLog
    /\ \E content \in SystemContents :
          full_log' = AppendMessage(full_log, SystemMsg(content), MemNow)
    /\ UNCHANGED <<window_size, context, memPhase, srvVars, auxVars>>

\* get_active_context
GetActiveContext ==
    /\ memPhase = "open"
    /\ context' = ActiveContext(full_log, window_size)
    /\ memPhase' = "read"
    /\ UNCHANGED <<full_log, window_size, srvVars, auxVars>>

MemNext ==
    \/ AddUserMessage
    \/ AddAiMessage
    \/ AddAiToolCall
    \/ AddToolMessage
    \/ AddSystemMessage
    \/ GetActiveContext

SpecMem == MemInit /\ [][MemNext]_vars

(***************************************************************************)
(* Vocabulary of the claims about the sanitizer.                           *)
(***************************************************************************)
IsToolCallMsg(m) == m.role = "assistant" /\ m.tool_calls # <<>>

IsSynthesized(m) == m.role = "tool" /\ m.content \in {RecoveredMid, RecoveredEnd}

\* how many calls of the list carry the id
CountCalls(calls, id) == Cardinality({k \in 1..Len(calls) : calls[k] = id})

\* how many tool messages of ms[from..to] carry the id
CountTools(ms, from, to, id) ==
    Cardinality({k \in from..to : ms[k].role = "tool" /\ ms[k].tool_call_id = id})

\* how many tool messages of ms[from..to] carry the id and the content
CountToolsWith(ms, from, to, id, content) ==
    Cardinality({k \in from..to : /\ ms[k].role = "tool"
                                  /\ ms[k].tool_call_id = id
                                  /\ ms[k].content = content})

Min(a, b) == IF a <= b THEN a ELSE b

\* ms[from..to] are all tool messages
AllTools(ms, from, to) == \A k \in from..to : ms[k].role = "tool"

\* every tool message lies in the block of tool messages that directly
\* follows an assistant with tool_calls and is as long as its call list
NoStrayTool(ms) ==
    \A p \in 1..Len(ms) :
        ms[p].role = "tool" =>
            \E i \in 1..(p-1) : /\ IsToolCallMsg(ms[i])
                                 /\ p <= i + Len(ms[i].tool_calls)
                                 /\ AllTools(ms, i+1, p)

\* M-1 as the claim states it: the answers follow in the order of tool_calls
ChainIntegrityInCallOrder(ms) ==
    /\ \A i \in 1..Len(ms) :
          IsToolCallMsg(ms[i]) =>
              LET calls == ms[i].tool_calls IN
              /\ i + Len(calls) <= Len(ms)
              /\ \A j \in 1..Len(calls) :
                    ms[i+j].role = "tool" /\ ms[i+j].tool_call_id = calls[j]
    /\ NoStrayTool(ms)

\* M-1 without the order: the answers that follow carry the ids of
\* tool_calls, each id as often as it is called
ChainIntegrity(ms) ==
    /\ \A i \in 1..Len(ms) :
          IsToolCallMsg(ms[i]) =>
              LET calls == ms[i].tool_calls IN
              /\ i + Len(calls) <= Len(ms)
              /\ AllTools(ms, i+1, i + Len(calls))
              /\ \A id \in Ids :
                    CountTools(ms, i+1, i + Len(calls), id) = CountCalls(calls, id)
    /\ NoStrayTool(ms)

\* the list _sanitize_context is applied to in the read state
Window == ContextWindow(full_log, window_size)

\* the list with each message stamped with its position, to follow
\* messages through the sanitizer
Tagged(ms) == [i \in 1..Len(ms) |-> [ms[i] EXCEPT !.id = i]]

\* C1 as stated: for every log and every window size the list returned by
\* get_active_context satisfies M-1 with the answers of each assistant in the
\* order of its tool_calls list.
C1_ChainIntegrityInCallOrder ==
    memPhase = "read" => ChainIntegrityInCallOrder(context)

\* C1 as amended: for every log and every window size, in the list returned
\* by get_active_context each assistant message with tool_calls is
\* immediately followed by exactly one tool message per call of that
\* assistant, carrying the ids of its tool_calls (in some order), and no
\* tool message appears anywhere else.
C1_ChainIntegrity ==
    memPhase = "read" => ChainIntegrity(context)

\* a context that was cut by the window and repaired: it holds an assistant
\* with tool_calls, an answer from the log and a synthesized answer
C1_Witness ==
    /\ memPhase = "read"
    /\ Len(full_log) > window_size
    /\ \E i \in 1..Len(context) : IsToolCallMsg(context[i])
    /\ \E i \in 1..Len(context) : IsSynthesized(context[i])
    /\ \E i \in 1..Len(context) : context[i].role = "tool" /\ ~IsSynthesized(context[i])

\* C2: _sanitize_context is idempotent on every message list: on the whole
\* log and on the window get_active_context cuts from it.
C2_SanitizeIdempotent ==
    /\ SanitizeContext(SanitizeContext(full_log)) = SanitizeContext(full_log)
    /\ SanitizeContext(SanitizeContext(Window)) = SanitizeContext(Window)

\* a list with a duplicate call id, an answer and an orphan, which the
\* sanitizer changes
C2_Witness ==
    /\ memPhase = "read"
    /\ SanitizeContext(Window) # Window
    /\ \E i \in 1..Len(Window) :
          /\ IsToolCallMsg(Window[i])
          /\ Len(Window[i].tool_calls) = 2
          /\ Window[i].tool_calls[1] = Window[i].tool_calls[2]
    /\ \E i \in 1..Len(Window) : Window[i].role = "tool"
    /\ \E i \in 1..Len(SanitizeContext(Window)) : IsSynthesized(SanitizeContext(Window)[i])

\* the tool message at position p of ms is an orphan: no assistant before it
\* in ms issued its id
IsOrphan(ms, p) ==
    /\ ms[p].role = "tool"
    /\ ~\E i \in 1..(p-1) : IsToolCallMsg(ms[i]) /\ InSeq(ms[p].tool_call_id, ms[i].tool_calls)

NonTool(m) == m.role # "tool"

\* C3: in the output of _sanitize_context every tool message carries an id
\* issued by an assistant with tool_calls before it; every orphan tool
\* message of the input is omitted; every non-tool message of the input is
\* kept, in the original order.
C3_OrphanDrop ==
    memPhase = "read" =>
        LET x == Tagged(Window)
            out == SanitizeContext(x)
        IN  /\ \A p \in 1..Len(out) : ~IsOrphan(out, p)
            /\ \A p \in 1..Len(x) : IsOrphan(x, p) => ~\E q \in 1..Len(out) : out[q].id = p
            /\ SelectSeq(out, NonTool) = SelectSeq(x, NonTool)

\* a window that starts with an orphan tool message and goes on with
\* another message
C3_Witness ==
    /\ memPhase = "read"
    /\ Len(Window) >= 2
    /\ IsOrphan(Window, 1)
    /\ Len(SanitizeContext(Window)) >= 1

\* the position of the last assistant with tool_calls of ms, 0 if none
LastToolCall(ms) ==
    IF \E i \in 1..Len(ms) : IsToolCallMsg(ms[i])
    THEN CHOOSE i \in 1..Len(ms) :
            IsToolCallMsg(ms[i]) /\ \A j \in (i+1)..Len(ms) : ~IsToolCallMsg(ms[j])
    ELSE 0

\* how many calls with the id of the assistant at position i are not
\* answered by the tool messages of ms[i+1..to]
Unanswered(ms, i, to, id) ==
    CountCalls(ms[i].tool_calls, id)
        - Min(CountCalls(ms[i].tool_calls, id), CountTools(ms, i+1, to, id))

\* the window ends in an assistant with tool_calls and tool messages only,
\* and some call is unanswered
EndsUnanswered(ms) ==
    LET i == LastToolCall(ms) IN
    /\ i > 0
    /\ AllTools(ms, i+1, Len(ms))
    /\ \E id \in Ids : Unanswered(ms, i, Len(ms), id) > 0

\* C4: if the window ends while calls of its last assistant with tool_calls
\* are unanswered, the output of _sanitize_context ends with exactly one
\* synthesized tool message per unanswered call (none for an answered one),
\* each with that id and the end-of-log recovery content.
C4_GapSynthesisAtEnd ==
    memPhase = "read" /\ EndsUnanswered(Window) =>
        LET x == Window
            out == SanitizeContext(x)
            i == LastToolCall(x)
            n == Cardinality({k \in 1..Len(out) : out[k].content = RecoveredEnd})
        IN  /\ \A id \in Ids :
                  CountToolsWith(out, 1, Len(out), id, RecoveredEnd)
                      = Unanswered(x, i, Len(x), id)
            /\ n <= Len(out)
            /\ \A k \in (Len(out) - n + 1)..Len(out) :
                  out[k].role = "tool" /\ out[k].content = RecoveredEnd /\ out[k].id = NoKey

\* the window ends in an assistant with two calls of which one is answered
C4_Witness ==
    /\ memPhase = "read"
    /\ EndsUnanswered(Window)
    /\ LET i == LastToolCall(Window) IN
          /\ Len(Window[i].tool_calls) = 2
          /\ \E id \in Ids : CountTools(Window, i+1, Len(Window), id) > 0
                               /\ InSeq(id, Window[i].tool_calls)
    /\ \E k \in 1..Len(context) : context[k].content = RecoveredEnd

\* the position in out of the message stamped p
ImageOf(out, p) == CHOOSE q \in 1..Len(out) : out[q].id = p

\* in x, the assistant with tool_calls at i is followed by tool messages only
\* up to the non-tool message at n
NextNonTool(x, i, n) ==
    /\ i < n /\ n <= Len(x)
    /\ x[n].role # "tool"
    /\ AllTools(x, i+1, n-1)

\* C5, first part: when a non-tool message follows an assistant with
\* tool_calls, the output holds between the two exactly one tool message per
\* call: the answers, then, directly before the following message, one
\* synthesized message (mid-sequence recovery content) per unanswered call;
\* and the pending set is cleared: no tool message directly follows a
\* message that is no assistant with tool_calls.
C5_Insertion(x, out) ==
    /\ \A i \in 1..Len(x) : \A n \in 1..Len(x) :
          IsToolCallMsg(x[i]) /\ NextNonTool(x, i, n) =>
              LET p == ImageOf(out, i)
                  q == ImageOf(out, n)
                  u == Cardinality({k \in (p+1)..(q-1) : out[k].content = RecoveredMid})
              IN  /\ q - p - 1 = Len(x[i].tool_calls)
                  /\ AllTools(out, p+1, q-1)
                  /\ \A id \in Ids :
                        /\ CountToolsWith(out, p+1, q-1, id, RecoveredMid)
                              = Unanswered(x, i, n-1, id)
                        /\ CountTools(out, p+1, q-1, id) = CountCalls(x[i].tool_calls, id)
                  /\ \A k \in (q-u)..(q-1) : out[k].content = RecoveredMid /\ out[k].id = NoKey
    /\ \A k \in 1..(Len(out)-1) :
          out[k].role # "tool" /\ ~IsToolCallMsg(out[k]) => out[k+1].role # "tool"

\* C5, second part: a log that ends with an assistant with the single call
\* c1, unanswered, and then the user message of the next turn
EndsWithOpenCallThenUser(log) ==
    /\ Len(log) >= 2
    /\ log[Len(log)].role = "user"
    /\ IsToolCallMsg(log[Len(log)-1])
    /\ Len(log[Len(log)-1].tool_calls) = 1

NoTurn == 0
\* delta.content of a chunk that carries no text
NoContent == "<None>"

\* an event dict; turn and n tell the properties which chat() yielded it and as
\* which of its events (NoTurn, 0: built by the server)
Event(t, n, type, content, session_id) ==
    [turn |-> t, n |-> n, type |-> type, content |-> content, session_id |-> session_id]

\* contents of the status events
StatusInterrupted == "Task Interrupted."
StatusStopped == "[Stopped]"
StatusExecuting == "Executing: tool..."
StatusSupervisor == "Supervisor: Write the file. (Auto-Continuing)"
StatusReflection == "Task reflection complete. Finishing."
StatusAborted == "Aborted by User."
\* the status contents in which "Interrupted" occurs
InterruptedContents == {StatusInterrupted}
\* the status contents in which "Aborted" occurs
AbortedContents == {StatusAborted}
\* contents of the error events
LlmApiError == "LLM API Error: timeout"
StreamContextError == "Stream context error: reset"
\* what _route_tool_execution returns when it finds the cancel token set
ToolCancelled == "[System]: Tool execution cancelled."
\* what a tool returns
ToolOutput == "ok"
\* tool_result: the raw result and the hint chat() adds for the model
WithPlanHint(raw) ==
    raw \o "\n\n[System: Check your plan. Update <plan> status in next response.]"

\* chunks of the LLM stream: a piece of text, or the start of a tool call
TextChunk == [content |-> "a", call |-> NoCall]
CallChunk(id) == [content |-> NoContent, call |-> id]
\* a chunk whose text is the empty string
EmptyChunk == [content |-> "", call |-> NoCall]
\* the streams the LLM answers with
ProseResponses == {<<TextChunk>>, <<TextChunk, TextChunk>>, <<EmptyChunk>>}
ToolResponses == {<<TextChunk, CallChunk("c1")>>, <<CallChunk("c1"), CallChunk("c2")>>}

\* asyncio.Queue.get / the loop's ready list: first in, first out
QueueGetLast(q) == [item |-> q[Len(q)], rest |-> SubSeq(q, 1, Len(q) - 1)]

QueueGet(q) == [item |-> Head(q), rest |-> Tail(q)]

\* the positions of a worker inside chat(), from after add_user_message to
\* the return
ChatPcs == {"iter_top", "create", "chunk_top", "chunk_body", "after_stream",
            "record", "tool_top", "tool_route", "tool_run", "tool_done",
            "supervisor", "finalize"}
\* chat() is running
Inside(t) == turn[t].pc \in ChatPcs
\* the turn has started and its done is not out yet
Running(t) == Inside(t) \/ turn[t].pc = "ended"

\* stop_event.is_set()
StopIsSet(t) == interrupt_events[turn[t].session_id] = "set"

\* the queue the wrapper of turn t was given
QueueOf(t) == IF turn[t].via = "sentinel" THEN t ELSE WsQueue

\* the lowest free turn of the run
FreeTurn(t) ==
    /\ t <= budget.turns
    /\ turn[t].pc = "idle"
    /\ \A u \in Turns : u < t => turn[u].pc # "idle"

\* /stop messages received so far
StopsSent ==
    Cardinality({i \in 1..Len(client) :
                    client[i].type = "status" /\ client[i].content \in AbortedContents})

\* yield: the wrapper (run_sync_chat_generator) hands the event to the loop;
\* _sync_task of chat_sync folds it into its reply
Emit(t, type, content) ==
    LET ev == Event(t, Len(yielded[t]) + 1, type, content, NoSession) IN
    /\ yielded' = [yielded EXCEPT ![t] = Append(@, ev)]
    /\ loop_ready' = IF turn[t].via = "sync" THEN loop_ready
                     ELSE Append(loop_ready, [queue |-> QueueOf(t), event |-> ev])
NoEmit == UNCHANGED <<yielded, loop_ready>>

\* session_memory._append_message
Write(t, msg) ==
    /\ transcript' = [transcript EXCEPT
                         ![turn[t].session_id] = AppendMessage(@, msg, MemNow)]
    /\ wrote' = [wrote EXCEPT ![t] = AppendMessage(@, msg, MemNow)]
NoWrite == UNCHANGED <<transcript, wrote>>

\* counts what the turn does once a cancel of its session has reached it
\* (2 stands for two or more)
After(t, d, tl, w) ==
    ac' = [ac EXCEPT ![t] =
              IF @.on THEN [on |-> TRUE, deltas |-> Min(2, @.deltas + d),
                            tools |-> Min(2, @.tools + tl), writes |-> Min(2, @.writes + w)]
              ELSE @]

\* the worker moves on
Goto(t, r) == turn' = [turn EXCEPT ![t] = r]

Init ==
    /\ full_log = <<>>
    /\ window_size = DefaultWindow
    /\ context = <<>>
    /\ memPhase = "open"
    /\ budget \in Budgets
    /\ SrvQuiet
    /\ AuxQuiet

\* websocket_chat, a chat message for session s: echo, then submit
WsMessage(s) ==
    \E t \in Turns :
        /\ FreeTurn(t)
        /\ client' = Append(client, Event(NoTurn, 0, "user", "text", s))
        /\ Goto(t, [IdleTurn EXCEPT !.pc = "queued", !.session_id = s, !.via = "ws"])
        /\ UNCHANGED <<memVars, auxVars, transcript, interrupt_events, loop_ready, event_queue,
                       llm_calls, budget, yielded, wrote, ac>>

\* chat_sync for session s: the task is handed to the executor
SyncChat(s) ==
    \E t \in Turns :
        /\ FreeTurn(t)
        /\ Goto(t, [IdleTurn EXCEPT !.pc = "queued", !.session_id = s, !.via = "sync"])
        /\ UNCHANGED <<memVars, auxVars, transcript, interrupt_events, loop_ready, event_queue,
                       client, llm_calls, budget, yielded, wrote, ac>>

\* sentinel_callback_bridge: handle_sentinel_trigger writes the alert into
\* resonance_main, then run_autonomous_reaction is scheduled on the loop
SentinelTrigger ==
    \E t \in Turns :
        /\ FreeTurn(t)
        /\ transcript' = [transcript EXCEPT
                             ![MainSession] = AppendMessage(@, SystemMsg(SentinelAlert), MemNow)]
        /\ Goto(t, [IdleTurn EXCEPT !.pc = "scheduled", !.session_id = MainSession,
                                    !.via = "sentinel"])
        /\ UNCHANGED <<memVars, auxVars, interrupt_events, loop_ready, event_queue, client,
                       llm_calls, budget, yielded, wrote, ac>>

\* run_autonomous_reaction up to its loop: broadcast the alert, submit the turn
AutoReactionStart(t) ==
    /\ turn[t].pc = "scheduled"
    /\ client' = Append(client, Event(NoTurn, 0, "sentinel_alert", SentinelAlert, MainSession))
    /\ Goto(t, [turn[t] EXCEPT !.pc = "queued", !.consumer = "running"])
    /\ UNCHANGED <<memVars, auxVars, transcript, interrupt_events, loop_ready, event_queue,
                   llm_calls, budget, yielded, wrote, ac>>

\* websocket_chat, "/stop" for session s: interrupt(s), the direct status, and
\* a done put on the connection's queue
WsStop(s) ==
    /\ StopsSent < budget.stops
    /\ interrupt_events' = [interrupt_events EXCEPT ![s] = IF @ = "absent" THEN @ ELSE "set"]
    /\ client' = Append(client, Event(NoTurn, 0, "status", StatusAborted, s))
    /\ event_queue' = [event_queue EXCEPT ![WsQueue] = Append(@, Event(NoTurn, 0, "done", "", s))]
    /\ ac' = [t \in Turns |->
                 IF Inside(t) /\ turn[t].session_id = s THEN [ac[t] EXCEPT !.on = TRUE]
                 ELSE ac[t]]
    /\ UNCHANGED <<memVars, auxVars, transcript, turn, loop_ready, llm_calls, budget, yielded, wrote>>

\* chat() up to the outer loop: the cancel token of the session is created or
\* cleared and the user message is written
ChatStart(t) ==
    /\ turn[t].pc = "queued"
    /\ interrupt_events' = [interrupt_events EXCEPT ![turn[t].session_id] = "clear"]
    /\ Write(t, UserMsg)
    /\ Goto(t, [turn[t] EXCEPT !.pc = "iter_top"])
    /\ NoEmit
    /\ UNCHANGED <<memVars, auxVars, event_queue, client, llm_calls, budget, ac>>

\* the head of the ReAct loop: the bound, then the first checkpoint
IterTop(t) ==
    /\ turn[t].pc = "iter_top"
    /\ IF turn[t].current_iteration < MAX_TOOL_ITERATIONS
       THEN IF StopIsSet(t)
            THEN /\ Emit(t, "status", StatusInterrupted)
                 /\ Goto(t, [turn[t] EXCEPT !.pc = "ended", !.stopped_at = "iter_top"])
            ELSE /\ NoEmit
                 /\ Goto(t, [turn[t] EXCEPT !.pc = "create", !.current_iteration = @ + 1])
       ELSE /\ NoEmit
            /\ Goto(t, [turn[t] EXCEPT !.pc = "supervisor"])
    /\ NoWrite
    /\ UNCHANGED <<memVars, auxVars, interrupt_events, event_queue, client, llm_calls, budget, ac>>

\* completions.create returns a stream
LlmCreate(t) ==
    /\ turn[t].pc = "create"
    /\ llm_calls < budget.llm
    /\ llm_calls' = llm_calls + 1
    /\ \E r \in ProseResponses \cup ToolResponses :
          Goto(t, [turn[t] EXCEPT !.pc = "chunk_top", !.response = r,
                       !.full_response_content = "", !.tool_calls_buffer = <<>>])
    /\ NoEmit /\ NoWrite
    /\ UNCHANGED <<memVars, auxVars, interrupt_events, event_queue, client, budget, ac>>

\* completions.create raises
\* after the error event chat() returns: it leaves the loops and skips the
\* final steps
ErrorExitBreaks(r) == [r EXCEPT !.pc = "finalize"]
ErrorExit(r) == [r EXCEPT !.pc = "ended"]

LlmCreateError(t) ==
    /\ turn[t].pc = "create"
    /\ Emit(t, "error", LlmApiError)
    /\ Goto(t, ErrorExit(turn[t]))
    /\ NoWrite
    /\ UNCHANGED <<memVars, auxVars, interrupt_events, event_queue, client, llm_calls, budget, ac>>

\* a chunk has arrived: the checkpoint between chunks
ChunkTop(t) ==
    /\ turn[t].pc = "chunk_top"
    /\ IF StopIsSet(t)
       THEN /\ Emit(t, "status", StatusStopped)
            /\ Goto(t, [turn[t] EXCEPT !.pc = "ended", !.stopped_at = "chunk_top"])
       ELSE /\ NoEmit
            /\ Goto(t, [turn[t] EXCEPT !.pc = "chunk_body"])
    /\ NoWrite
    /\ UNCHANGED <<memVars, auxVars, interrupt_events, event_queue, client, llm_calls, budget, ac>>

\* the stream raises while the next chunk is awaited
StreamError(t) ==
    /\ turn[t].pc = "chunk_top"
    /\ Emit(t, "error", StreamContextError)
    /\ Goto(t, ErrorExit(turn[t]))
    /\ NoWrite
    /\ UNCHANGED <<memVars, auxVars, interrupt_events, event_queue, client, llm_calls, budget, ac>>

\* the body of the stream loop: text is yielded as a delta, a tool call is
\* collected
ChunkBody(t) ==
    LET chunk == Head(turn[t].response)
        rest == Tail(turn[t].response)
        text == chunk.content # NoContent IN
    /\ turn[t].pc = "chunk_body"
    /\ IF text THEN Emit(t, "delta", chunk.content) ELSE NoEmit
    /\ Goto(t, [turn[t] EXCEPT
                   !.pc = IF rest = <<>> THEN "after_stream" ELSE "chunk_top",
                   !.response = rest,
                   !.full_response_content = IF text THEN @ \o chunk.content ELSE @,
                   !.tool_calls_buffer = IF chunk.call # NoCall THEN Append(@, chunk.call)
                                         ELSE @])
    /\ After(t, IF text THEN 1 ELSE 0, 0, 0)
    /\ NoWrite
    /\ UNCHANGED <<memVars, auxVars, interrupt_events, event_queue, client, llm_calls, budget>>

\* the checkpoint after the stream: a silent return
AfterStream(t) ==
    /\ turn[t].pc = "after_stream"
    /\ Goto(t, IF StopIsSet(t)
               THEN [turn[t] EXCEPT !.pc = "ended", !.stopped_at = "after_stream"]
               ELSE [turn[t] EXCEPT !.pc = "record"])
    /\ NoEmit /\ NoWrite
    /\ UNCHANGED <<memVars, auxVars, interrupt_events, event_queue, client, llm_calls, budget, ac>>

\* the assistant message is recorded: add_ai_tool_call when tools were called,
\* otherwise add_ai_message (which skips empty text) and the loop is left
Record(t) ==
    LET calls == turn[t].tool_calls_buffer
        content == turn[t].full_response_content IN
    /\ turn[t].pc = "record"
    /\ IF calls # <<>>
       THEN /\ Write(t, AiToolCallMsg(content, calls))
            /\ After(t, 0, 0, 1)
            /\ Goto(t, [turn[t] EXCEPT !.pc = "tool_top", !.tc = 1])
       ELSE /\ IF content # "" THEN Write(t, AiMsg(content)) ELSE NoWrite
            /\ After(t, 0, 0, IF content # "" THEN 1 ELSE 0)
            /\ Goto(t, [turn[t] EXCEPT !.pc = "supervisor", !.is_generation_finished = TRUE])
    /\ NoEmit
    /\ UNCHANGED <<memVars, auxVars, interrupt_events, event_queue, client, llm_calls, budget>>

\* the checkpoint before each tool: a silent return
ToolTop(t) ==
    /\ turn[t].pc = "tool_top"
    /\ Goto(t, IF StopIsSet(t)
               THEN [turn[t] EXCEPT !.pc = "ended", !.stopped_at = "tool_top"]
               ELSE [turn[t] EXCEPT !.pc = "tool_route"])
    /\ NoEmit /\ NoWrite
    /\ UNCHANGED <<memVars, auxVars, interrupt_events, event_queue, client, llm_calls, budget, ac>>

\* the status event, then _route_tool_execution: it returns at once when the
\* token is set, otherwise the tool starts
ToolRoute(t) ==
    /\ turn[t].pc = "tool_route"
    /\ Emit(t, "status", StatusExecuting)
    /\ IF StopIsSet(t)
       THEN /\ Goto(t, [turn[t] EXCEPT !.pc = "tool_done", !.tool_result_raw = ToolCancelled])
            /\ UNCHANGED ac
       ELSE /\ Goto(t, [turn[t] EXCEPT !.pc = "tool_run"])
            /\ After(t, 0, 1, 0)
    /\ NoWrite
    /\ UNCHANGED <<memVars, auxVars, interrupt_events, event_queue, client, llm_calls, budget>>

\* the tool returns; no tool reads the token it is not given
ToolRun(t) ==
    /\ turn[t].pc = "tool_run"
    /\ Goto(t, [turn[t] EXCEPT !.pc = "tool_done", !.tool_result_raw = ToolOutput])
    /\ NoEmit /\ NoWrite
    /\ UNCHANGED <<memVars, auxVars, interrupt_events, event_queue, client, llm_calls, budget, ac>>

\* tc.id of the tool call the loop is at
AnsweredCallFirst(calls, tc) == calls[1]

AnsweredCall(calls, tc) == calls[tc]

\* the tool event and add_tool_message; then the next tool or the next iteration
ToolDone(t) ==
    LET calls == turn[t].tool_calls_buffer IN
    /\ turn[t].pc = "tool_done"
    /\ Emit(t, "tool", turn[t].tool_result_raw)
    /\ Write(t, ToolMsg(WithPlanHint(turn[t].tool_result_raw), AnsweredCall(calls, turn[t].tc)))
    /\ After(t, 0, 0, 1)
    /\ Goto(t, [turn[t] EXCEPT !.pc = IF turn[t].tc < Len(calls) THEN "tool_top" ELSE "iter_top",
                               !.tc = @ + 1, !.tool_result_raw = ""])
    /\ UNCHANGED <<memVars, auxVars, interrupt_events, event_queue, client, llm_calls, budget>>

\* the Supervisor's gate is passed and its verdict is INCOMPLETE: the status,
\* the injected system message, and the outer loop starts over
SupervisorIncomplete(t) ==
    /\ turn[t].pc = "supervisor"
    /\ turn[t].is_generation_finished
    /\ turn[t].supervisor_loops < MAX_SUPERVISOR_LOOPS
    /\ turn[t].supervisor_loops < budget.incomplete
    /\ Emit(t, "status", StatusSupervisor)
    /\ Write(t, SystemMsg(SupervisorIntervention))
    /\ After(t, 0, 0, 1)
    /\ Goto(t, [turn[t] EXCEPT !.pc = "iter_top", !.supervisor_loops = @ + 1,
                               !.current_iteration = 0, !.is_generation_finished = FALSE])
    /\ UNCHANGED <<memVars, auxVars, interrupt_events, event_queue, client, llm_calls, budget>>

\* the verdict is COMPLETE (or the check failed), or the gate is not passed:
\* then the reflection status is yielded; the outer loop is left
SupervisorComplete(t) ==
    /\ turn[t].pc = "supervisor"
    /\ IF turn[t].is_generation_finished /\ turn[t].supervisor_loops < MAX_SUPERVISOR_LOOPS
       THEN NoEmit
       ELSE Emit(t, "status", StatusReflection)
    /\ Goto(t, [turn[t] EXCEPT !.pc = "finalize"])
    /\ NoWrite
    /\ UNCHANGED <<memVars, auxVars, interrupt_events, event_queue, client, llm_calls, budget, ac>>

\* _update_summary_if_needed and the start of the memory thread; chat() returns
Finalize(t) ==
    /\ turn[t].pc = "finalize"
    /\ Goto(t, [turn[t] EXCEPT !.pc = "ended"])
    /\ NoEmit /\ NoWrite
    /\ UNCHANGED <<memVars, auxVars, interrupt_events, event_queue, client, llm_calls, budget, ac>>

\* the generator is exhausted: run_sync_chat_generator hands over the done
\* event; _sync_task returns its reply
ChatReturn(t) ==
    /\ turn[t].pc = "ended"
    /\ loop_ready' = IF turn[t].via = "sync" THEN loop_ready
                     ELSE Append(loop_ready,
                                 [queue |-> QueueOf(t),
                                  event |-> Event(t, Len(yielded[t]) + 1, "done", "",
                                                  turn[t].session_id)])
    /\ Goto(t, [turn[t] EXCEPT !.pc = "closed"])
    /\ NoWrite
    /\ UNCHANGED <<memVars, auxVars, interrupt_events, event_queue, client, llm_calls, budget, yielded, ac>>

\* the event loop runs the next put handed over by a worker
LoopRunPut ==
    /\ loop_ready # <<>>
    /\ LET g == QueueGet(loop_ready) IN
          /\ loop_ready' = g.rest
          /\ event_queue' = [event_queue EXCEPT ![g.item.queue] = Append(@, g.item.event)]
    /\ UNCHANGED <<memVars, auxVars, transcript, interrupt_events, turn, client, llm_calls, budget, yielded, wrote, ac>>

\* sender_task: get an event, send it to the client
SenderSend ==
    /\ event_queue[WsQueue] # <<>>
    /\ LET g == QueueGet(event_queue[WsQueue]) IN
          /\ event_queue' = [event_queue EXCEPT ![WsQueue] = g.rest]
          /\ client' = Append(client, g.item)
    /\ UNCHANGED <<memVars, auxVars, transcript, interrupt_events, turn, loop_ready, llm_calls, budget, yielded, wrote, ac>>

\* event["session_id"] = session_id in the loop of run_autonomous_reaction
AutoStampNone(e) == e
AutoStamp(e) == [e EXCEPT !.session_id = MainSession]

\* the loop of run_autonomous_reaction: get an event, stamp the session,
\* broadcast it; done and error end the loop
AutoConsume(t) ==
    /\ turn[t].consumer = "running"
    /\ event_queue[t] # <<>>
    /\ LET g == QueueGet(event_queue[t]) IN
          /\ event_queue' = [event_queue EXCEPT ![t] = g.rest]
          /\ client' = Append(client, AutoStamp(g.item))
          /\ turn' = [turn EXCEPT ![t].consumer =
                         IF g.item.type \in {"done", "error"} THEN "done" ELSE @]
    /\ UNCHANGED <<memVars, auxVars, transcript, interrupt_events, loop_ready, llm_calls, budget, yielded, wrote, ac>>

Next ==
    \/ \E s \in Sessions : WsMessage(s)
    \/ \E s \in Sessions : SyncChat(s)
    \/ SentinelTrigger
    \/ \E s \in Sessions : WsStop(s)
    \/ \E t \in Turns : AutoReactionStart(t)
    \/ \E t \in Turns : ChatStart(t)
    \/ \E t \in Turns : IterTop(t)
    \/ \E t \in Turns : LlmCreate(t)
    \/ \E t \in Turns : LlmCreateError(t)
    \/ \E t \in Turns : ChunkTop(t)
    \/ \E t \in Turns : StreamError(t)
    \/ \E t \in Turns : ChunkBody(t)
    \/ \E t \in Turns : AfterStream(t)
    \/ \E t \in Turns : Record(t)
    \/ \E t \in Turns : ToolTop(t)
    \/ \E t \in Turns : ToolRoute(t)
    \/ \E t \in Turns : ToolRun(t)
    \/ \E t \in Turns : ToolDone(t)
    \/ \E t \in Turns : SupervisorIncomplete(t)
    \/ \E t \in Turns : SupervisorComplete(t)
    \/ \E t \in Turns : Finalize(t)
    \/ \E t \in Turns : ChatReturn(t)
    \/ LoopRunPut
    \/ SenderSend
    \/ \E t \in Turns : AutoConsume(t)

Spec == Init /\ [][Next]_vars

(***************************************************************************)
(* Claims about cancellation, concurrency and event delivery (Spec).       *)
(***************************************************************************)
\* the turn has left chat()
Exited(t) == turn[t].pc \in {"ended", "closed"}

\* the status events of the turn that say "Interrupted"
SaidInterrupted(t) ==
    \E i \in 1..Len(yielded[t]) :
        yielded[t][i].type = "status" /\ yielded[t][i].content \in InterruptedContents

\* the turn yielded an error event
SaidError(t) == \E i \in 1..Len(yielded[t]) : yielded[t][i].type = "error"

\* C6: once a cancel of its session has reached a running turn, the turn
\* yields at most one more delta, starts no further tool, and writes at most
\* the message of the step it was in, wherever the cancel found it.
C6_CancelLatency ==
    \A t \in Turns :
        ac[t].on => ac[t].deltas <= 1 /\ ac[t].tools = 0 /\ ac[t].writes <= 1

\* C7: a turn that stopped at a checkpoint that found the cancel token set has
\* yielded a status event saying "Interrupted" and no error event, whichever
\* checkpoint it was.
C7_InterruptedStatus ==
    \A t \in Turns :
        turn[t].stopped_at # "none" => SaidInterrupted(t) /\ ~SaidError(t)

\* C8: when a turn was cancelled between stream chunks after it had yielded
\* delta events, the text streamed so far is an assistant message of the
\* session's transcript once the turn has exited.
C8_PartialTextKept ==
    \A t \in Turns :
        (/\ Exited(t)
         /\ turn[t].stopped_at = "chunk_top"
         /\ turn[t].full_response_content # "")
        => \E i \in 1..Len(transcript[turn[t].session_id]) :
              /\ transcript[turn[t].session_id][i].role = "assistant"
              /\ transcript[turn[t].session_id][i].content = turn[t].full_response_content

\* C9: no two turns run on the same session at the same time: a turn of a
\* session whose earlier turn has not handed over its done is not started.
C9_OneTurnPerSession ==
    \A t1, t2 \in Turns :
        (t1 # t2 /\ Running(t1) /\ Running(t2))
        => turn[t1].session_id # turn[t2].session_id

\* the events of a list that chat() of turn t yielded
OfTurn(events, t) == SelectSeq(events, LAMBDA e : e.turn = t /\ e.type # "done")
\* the events of the puts the loop has not run yet
ReadyEvents == [i \in 1..Len(loop_ready) |-> loop_ready[i].event]
\* what the client has got of turn t, and what is still on its way
Delivered(t) == OfTurn(client, t)
InFlight(t) == OfTurn(event_queue[QueueOf(t)], t) \o OfTurn(ReadyEvents, t)
\* the same events in the same order (the sentinel reaction stamps session_id)
SameEvents(a, b) ==
    /\ Len(a) = Len(b)
    /\ \A i \in 1..Len(a) :
          a[i].n = b[i].n /\ a[i].type = b[i].type /\ a[i].content = b[i].content

\* C10: for each streamed turn, what the client has received of it followed
\* by what is still in flight is exactly what chat() yielded, in that order:
\* the client sees the events in the order they were yielded, none lost, none
\* twice.
C10_EventOrder ==
    \A t \in Turns :
        turn[t].via \in {"ws", "sentinel"}
        => SameEvents(Delivered(t) \o InFlight(t), yielded[t])

\* a turn over the WebSocket has closed and the client has all its events,
\* among them a delta and a tool event
C10_Witness ==
    \E t \in Turns :
        /\ turn[t].via = "ws" /\ turn[t].pc = "closed"
        /\ Len(yielded[t]) >= 3
        /\ \E i, j \in 1..Len(yielded[t]) :
              yielded[t][i].type = "delta" /\ yielded[t][j].type = "tool" /\ i < j
        /\ SameEvents(Delivered(t), yielded[t])

(***************************************************************************)
(* Claims about the events of a turn and the loops of chat() (Spec).       *)
(***************************************************************************)
\* t is the only turn submitted for its session, so the client can tell which
\* events of the session belong to it
SoleTurn(t) ==
    /\ turn[t].pc # "idle"
    /\ \A u \in Turns \ {t} :
          turn[u].pc # "idle" => turn[u].session_id # turn[t].session_id

\* where the client got the echo of the turn's message
EchoAt(t) ==
    CHOOSE i \in 1..Len(client) :
        client[i].type = "user" /\ client[i].session_id = turn[t].session_id

\* the done events of the turn's session the client got after the echo
DonesOf(t) ==
    {i \in 1..Len(client) :
        /\ i > EchoAt(t)
        /\ client[i].type = "done"
        /\ client[i].session_id = turn[t].session_id}

\* C11: of a turn submitted over the WebSocket the client receives one done
\* event at most while the turn is under way, and no event of the turn after
\* a done, also when the turn is stopped with /stop.
C11_OneDoneLast ==
    \A t \in Turns :
        (turn[t].via = "ws" /\ SoleTurn(t))
        => /\ Cardinality(DonesOf(t)) <= 1
           /\ \A i \in DonesOf(t) : \A j \in 1..Len(client) :
                 (client[j].turn = t /\ client[j].type # "done") => j < i

(***************************************************************************)
(* SpecLoop: the two loops of one chat() call with the limits of the code, *)
(* followed by the wrapper's done.  The transcript and the events are left *)
(* out; the record loop counts what the claims count.                      *)
(***************************************************************************)
\* tool calls in one LLM answer
MaxCallsPerAnswer == 2

\* what a streaming LLM call comes to
LlmOutcomes == {"tools", "prose", "error"}
\* what _supervisor_check hands back: a verdict, the COMPLETE it returns when
\* the call or the parse raised, or JSON that is no object
Verdicts == {"INCOMPLETE", "COMPLETE", "RAISED", "NOT_A_DICT"}

\* while supervisor_loops <= MAX_SUPERVISOR_LOOPS
OuterGuard(l) == l.supervisor_loops <= MAX_SUPERVISOR_LOOPS
\* while current_iteration < MAX_TOOL_ITERATIONS
InnerGuard(l) == l.current_iteration < MAX_TOOL_ITERATIONS
\* if is_generation_finished and supervisor_loops < MAX_SUPERVISOR_LOOPS
SupervisorGateOpen(l) == l.is_generation_finished /\ l.supervisor_loops <= MAX_SUPERVISOR_LOOPS

SupervisorGate(l) == l.is_generation_finished /\ l.supervisor_loops < MAX_SUPERVISOR_LOOPS
\* current_iteration += 1
SameIteration(i) == i

NextIteration(i) == i + 1

LoopInit ==
    /\ full_log = <<>>
    /\ window_size = DefaultWindow
    /\ context = <<>>
    /\ memPhase = "open"
    /\ budget = NoBudget
    /\ SrvQuiet
    /\ loop = [LoopIdle EXCEPT !.pc = "outer"]
    /\ rag = RagIdle
    /\ skill = SkillIdle
    /\ sentinel_engine = EngineIdle
    /\ disk = DiskIdle
    /\ ws = WsIdle
    /\ mem_log = MemLogIdle
    /\ agent = AgentIdle
    /\ dispatch = DispatchIdle
    /\ prompt = PromptIdle
    /\ rag_store = RagStoreIdle

\* the head of the Supervisor loop: a new entry of the ReAct loop, or out
LoopOuter ==
    /\ loop.pc = "outer"
    /\ loop' = IF OuterGuard(loop)
               THEN [loop EXCEPT !.pc = "inner", !.current_iteration = 0,
                                 !.is_generation_finished = FALSE,
                                 !.entries = @ + 1, !.calls = 0]
               ELSE [loop EXCEPT !.pc = "finalize"]
    /\ UNCHANGED loopRest

\* the head of the ReAct loop: the bound, then the checkpoint
LoopInner ==
    /\ loop.pc = "inner"
    /\ loop' = IF InnerGuard(loop)
               THEN IF loop.stop THEN [loop EXCEPT !.pc = "returned"]
                    ELSE [loop EXCEPT !.pc = "create",
                                      !.current_iteration = NextIteration(@)]
               ELSE [loop EXCEPT !.pc = "gate"]
    /\ UNCHANGED loopRest

\* one streaming LLM call and its stream: an error or a cancel between chunks
\* ends the turn, tool calls go to the tools, prose leaves the ReAct loop
LoopCreate ==
    /\ loop.pc = "create"
    /\ \E o \in LlmOutcomes, n \in 1..MaxCallsPerAnswer :
          loop' = [loop EXCEPT
                      !.calls = Min(MAX_TOOL_ITERATIONS + 1, @ + 1),
                      !.pc = IF o = "error" \/ loop.stop THEN "returned"
                             ELSE IF o = "tools" THEN "tools" ELSE "gate",
                      !.tools_left = IF o = "tools" THEN n ELSE 0,
                      !.is_generation_finished = (o = "prose" /\ ~loop.stop)]
    /\ UNCHANGED loopRest

\* the loop over the tool calls: the checkpoint, then one tool
LoopTool ==
    /\ loop.pc = "tools"
    /\ loop' = IF loop.stop THEN [loop EXCEPT !.pc = "returned"]
               ELSE [loop EXCEPT !.tools_left = @ - 1,
                                 !.pc = IF loop.tools_left = 1 THEN "inner" ELSE "tools"]
    /\ UNCHANGED loopRest

\* after the ReAct loop: the Supervisor is asked when its gate is open
LoopGate ==
    /\ loop.pc = "gate"
    /\ IF SupervisorGate(loop)
       THEN \E v \in Verdicts :
               loop' = [loop EXCEPT
                           !.invoked = Min(MAX_SUPERVISOR_LOOPS + 1, @ + 1),
                           !.supervisor_loops = IF v = "INCOMPLETE" THEN @ + 1 ELSE @,
                           !.incomplete = IF v = "INCOMPLETE" THEN @ + 1 ELSE @,
                           !.pc = CASE v = "INCOMPLETE" -> "outer"
                                    [] v = "NOT_A_DICT" -> "returned"
                                    [] OTHER -> "finalize"]
       ELSE loop' = [loop EXCEPT !.pc = "finalize"]
    /\ UNCHANGED loopRest

\* _update_summary_if_needed, the memory thread, the end of chat()
LoopFinalize ==
    /\ loop.pc = "finalize"
    /\ loop' = [loop EXCEPT !.pc = "returned"]
    /\ UNCHANGED loopRest

\* run_sync_chat_generator: the generator is exhausted, done is handed over
LoopDone ==
    /\ loop.pc = "returned"
    /\ loop' = [loop EXCEPT !.pc = "done"]
    /\ UNCHANGED loopRest

\* interrupt() sets the session's token while the turn runs
LoopCancel ==
    /\ loop.pc \notin {"returned", "done"}
    /\ ~loop.stop
    /\ loop' = [loop EXCEPT !.stop = TRUE]
    /\ UNCHANGED loopRest

\* the steps of the worker
LoopStep ==
    \/ LoopOuter
    \/ LoopInner
    \/ LoopCreate
    \/ LoopTool
    \/ LoopGate
    \/ LoopFinalize
    \/ LoopDone

LoopNext == LoopStep \/ LoopCancel

SpecLoop == LoopInit /\ [][LoopNext]_vars

\* the worker thread keeps running: every LLM call and every tool returns
SpecLoopFair == SpecLoop /\ WF_vars(LoopStep)

\* C12: in one turn the Supervisor is asked at most MAX_SUPERVISOR_LOOPS (3)
\* times, the ReAct loop is entered at most once more than there were
\* INCOMPLETE verdicts, and one entry makes at most MAX_TOOL_ITERATIONS (15)
\* streaming LLM calls.
C12_LoopBounds ==
    /\ loop.invoked <= MAX_SUPERVISOR_LOOPS
    /\ loop.entries <= loop.incomplete + 1
    /\ loop.calls <= MAX_TOOL_ITERATIONS

\* three INCOMPLETE verdicts, then a fourth entry that used all its calls
C12_Witness ==
    /\ loop.invoked = MAX_SUPERVISOR_LOOPS
    /\ loop.entries = MAX_SUPERVISOR_LOOPS + 1
    /\ loop.calls = MAX_TOOL_ITERATIONS
    /\ loop.pc = "done"

\* C13: every turn terminates: when the LLM calls and the tools return,
\* chat() comes to its end and the wrapper hands over done, whatever the
\* model and the Supervisor answer.
C13_TurnTerminates == <>(loop.pc = "done")

\* a turn is over that called tools in every iteration of an entry and got
\* INCOMPLETE every time the Supervisor was asked
C13_Witness ==
    /\ loop.pc = "done"
    /\ loop.calls = MAX_TOOL_ITERATIONS
    /\ loop.incomplete = MAX_SUPERVISOR_LOOPS
    /\ ~loop.is_generation_finished
    /\ ~loop.stop

\* the system contents of the model in which the instruction of the verdict
\* ("Write the file.") occurs
InstructionContents == {SupervisorIntervention}

\* the step of turn t is the one that follows an INCOMPLETE verdict
AfterIncomplete(t) == turn[t].pc = "supervisor" /\ turn'[t].pc = "iter_top"
\* the step of turn t is the one that follows a COMPLETE verdict
AfterComplete(t) == turn[t].pc = "supervisor" /\ turn'[t].pc = "finalize"

\* C14: the step after an INCOMPLETE verdict appends to the transcript one
\* system message that contains "Supervisor" and the instruction, increments
\* supervisor_loops and re-enters the ReAct loop; after a COMPLETE verdict the
\* turn goes to Finalize and from there to its end, with no further LLM call.
C14_SupervisorVerdict ==
    [][\A t \in Turns :
          LET s == turn[t].session_id IN
          /\ AfterIncomplete(t) =>
                /\ turn[t].supervisor_loops < MAX_SUPERVISOR_LOOPS
                /\ turn'[t].supervisor_loops = turn[t].supervisor_loops + 1
                /\ turn'[t].current_iteration = 0
                /\ Len(transcript'[s]) = Len(transcript[s]) + 1
                /\ transcript'[s][Len(transcript'[s])].role = "system"
                /\ transcript'[s][Len(transcript'[s])].content \in InstructionContents
                /\ HasSupervisor(transcript'[s][Len(transcript'[s])].content)
          /\ AfterComplete(t) => llm_calls' = llm_calls
          /\ turn[t].pc = "finalize" => turn'[t].pc \in {"finalize", "ended"}
      ]_vars

\* an assistant message without tool calls
IsProse(m) == m.role = "assistant" /\ m.tool_calls = <<>>

\* the turn was not stopped by a cancel and got no error from the LLM
Undisturbed(t) == turn[t].stopped_at = "none" /\ ~SaidError(t)

\* w starts with the user message and has no other
StartsWithUser(w) ==
    \A i \in 1..Len(w) : (w[i].role = "user") <=> (i = 1)

\* each assistant message with calls is followed by one tool message per
\* call, in call order and with the call's id, as far as w goes, and every
\* tool message of w is one of these
ToolBlocks(w) ==
    /\ \A i \in 1..Len(w) :
          IsToolCallMsg(w[i]) =>
             \A k \in 1..Len(w[i].tool_calls) :
                i + k <= Len(w) =>
                   w[i + k].role = "tool" /\ w[i + k].tool_call_id = w[i].tool_calls[k]
    /\ \A i \in 1..Len(w) :
          w[i].role = "tool" =>
             \E j \in 1..(i - 1) :
                IsToolCallMsg(w[j]) /\ i - j <= Len(w[j].tool_calls)

\* user; (assistant[tool_calls]; tool x N)*; assistant(prose), or a prefix of it
ShapeOneAnswer(w) ==
    /\ StartsWithUser(w)
    /\ ToolBlocks(w)
    /\ \A i \in 1..Len(w) : w[i].role # "system"
    /\ \A i \in 1..Len(w) : IsProse(w[i]) => i = Len(w)

\* the same with one such run per pass of the Supervisor loop, the passes
\* separated by the injected system message; the prose of a pass is the last
\* message of the pass
ShapePerPass(w) ==
    /\ StartsWithUser(w)
    /\ ToolBlocks(w)
    /\ \A i \in 1..Len(w) :
          w[i].role = "system" => w[i].content = SupervisorIntervention
    /\ \A i \in 1..Len(w) :
          IsProse(w[i]) => i = Len(w) \/ w[i + 1].role = "system"

\* the prose messages of w
ProseCount(w) == Cardinality({i \in 1..Len(w) : IsProse(w[i])})

\* C15 as stated: what an undisturbed turn has written is user;
\* (assistant[tool_calls]; tool x N)*; assistant(prose) or a prefix of it, and
\* the whole of it once the turn has left chat().
C15_TranscriptShape ==
    \A t \in Turns :
        (turn[t].pc \notin {"idle", "scheduled", "queued"} /\ Undisturbed(t))
        => /\ ShapeOneAnswer(wrote[t])
           /\ Exited(t) => IsProse(wrote[t][Len(wrote[t])])

\* C15 amended: what an undisturbed turn has written is the user message and
\* then, per pass of the Supervisor loop, tool blocks (one assistant message
\* with all the calls, then one tool message per call in call order with the
\* call's id) closed by the prose when the answer has text; passes are
\* separated by the Supervisor's system message, one per INCOMPLETE verdict.
C15_TranscriptShapePerPass ==
    \A t \in Turns :
        (turn[t].pc \notin {"idle", "scheduled", "queued"} /\ Undisturbed(t))
        => /\ ShapePerPass(wrote[t])
           /\ Cardinality({i \in 1..Len(wrote[t]) : wrote[t][i].role = "system"})
                 = turn[t].supervisor_loops
           /\ ProseCount(wrote[t]) <= turn[t].supervisor_loops + 1

\* an undisturbed turn has left chat() after a tool block with two calls and
\* the prose that followed it
C15_Witness ==
    \E t \in Turns :
        /\ Undisturbed(t) /\ Exited(t)
        /\ Len(wrote[t]) = 5
        /\ IsToolCallMsg(wrote[t][2]) /\ Len(wrote[t][2].tool_calls) = 2
        /\ wrote[t][3].role = "tool" /\ wrote[t][4].role = "tool"
        /\ IsProse(wrote[t][5])


\* ---------------------------------------------------------------------------
\* SpecRag: the long-term memory store (rag_store.py).  The collection holds
\* the records and their metadata; memory_docs_cache is the snapshot of the
\* collection taken when the BM25 index was last rebuilt.  rag.returned counts,
\* for the claims, how often a search has returned each record.
\* ---------------------------------------------------------------------------
MaxRecords == 10
MaxRagOps == 3
Records == 1 .. MaxRecords
\* the records already added when the searches begin
Stored == 1 .. (MaxRecords - 1)
\* the n_results a caller asks for
TopKs == {1, 2}
Strategies == {"semantic", "hybrid_time", "hybrid_bm25"}
\* _search_hybrid_bm25 asks the collection for n * 4 semantic candidates
BM25_CANDIDATE_FACTOR == 4

NoCounts == [r \in Records |-> 0]

\* _rebuild_bm25_index: the cache becomes a copy of the collection
RebuildBm25Index(ids, store) == [cache_ids |-> ids, cache |-> store]

\* _increment_stats(ids, metadatas): each returned record's metadata is
\* replaced by the metadata handed in, with access_count + 1
IncrementStats(store, R, meta) ==
    [r \in Records |-> IF r \in R THEN meta[r] + 1 ELSE store[r]]

\* the ghost count of returns
CountReturned(returned, R) ==
    [r \in Records |-> IF r \in R THEN returned[r] + 1 ELSE returned[r]]

\* the metadata _search_hybrid_bm25 holds for a candidate: the collection's
\* for a semantic candidate, the cached one for a candidate only BM25 found
CandidateMeta(store, cache, BmOnly) ==
    [r \in Records |-> IF r \in BmOnly THEN cache[r] ELSE store[r]]

RagInit ==
    /\ rag = [ids |-> Stored, used |-> Stored, store |-> NoCounts,
              cache_ids |-> Stored, cache |-> NoCounts,
              returned |-> NoCounts, ops |-> 0]
    /\ loop = LoopIdle
    /\ skill = SkillIdle
    /\ sentinel_engine = EngineIdle
    /\ disk = DiskIdle
    /\ ws = WsIdle
    /\ mem_log = MemLogIdle
    /\ agent = AgentIdle
    /\ dispatch = DispatchIdle
    /\ prompt = PromptIdle
    /\ rag_store = RagStoreIdle
    /\ budget = NoBudget
    /\ SrvQuiet
    /\ full_log = <<>> /\ window_size = DefaultWindow
    /\ context = <<>> /\ memPhase = "idle"

\* add_memory: a new id, access_count 0, then the index is rebuilt
AddMemory(r) ==
    /\ rag.ops < MaxRagOps
    /\ r \notin rag.used
    /\ LET ids == rag.ids \cup {r}
           store == [rag.store EXCEPT ![r] = 0]
           b == RebuildBm25Index(ids, store)
       IN rag' = [rag EXCEPT !.ids = ids, !.used = @ \cup {r}, !.store = store,
                             !.cache_ids = b.cache_ids, !.cache = b.cache,
                             !.ops = @ + 1]
    /\ UNCHANGED ragRest

\* delete_memory: the record leaves the collection, then the index is rebuilt
DeleteMemory(r) ==
    /\ rag.ops < MaxRagOps
    /\ r \in rag.ids
    /\ LET ids == rag.ids \ {r}
           b == RebuildBm25Index(ids, rag.store)
       IN rag' = [rag EXCEPT !.ids = ids,
                             !.cache_ids = b.cache_ids, !.cache = b.cache,
                             !.ops = @ + 1]
    /\ UNCHANGED ragRest

\* search_memory with strategy semantic or hybrid_time: the k results are
\* among the collection's answer, and their metadata is the collection's
SearchFresh(strategy, n) ==
    /\ rag.ops < MaxRagOps
    /\ strategy \in {"semantic", "hybrid_time"}
    /\ rag.ids # {}
    /\ LET k == Min(n, Cardinality(rag.ids))
       IN \E R \in SUBSET rag.ids :
            /\ Cardinality(R) = k
            /\ rag' = [rag EXCEPT !.store = IncrementStats(@, R, rag.store),
                                  !.returned = CountReturned(@, R),
                                  !.ops = @ + 1]
    /\ UNCHANGED ragRest

\* search_memory with strategy hybrid_bm25.  The collection answers with
\* min(4k, count) semantic candidates; BM25 adds the cached records it scores
\* above 0.  The best semantic candidate weighs at least 0.7 and a record only
\* BM25 found at most 0.3, so the k results hold a semantic candidate; a
\* result only BM25 found (BmOnly) needs a record outside the semantic
\* candidates.  The statistics are written from the candidates' metadata.
SearchHybridBm25(n) ==
    /\ rag.ops < MaxRagOps
    /\ rag.ids # {}
    /\ LET count == Cardinality(rag.ids)
           k == Min(n, count)
           top_k_candidates == Min(k * BM25_CANDIDATE_FACTOR, count)
       IN \E R \in SUBSET rag.ids : \E BmOnly \in SUBSET (R \cap rag.cache_ids) :
            /\ Cardinality(R) = k
            /\ R \ BmOnly # {}
            /\ Cardinality(BmOnly) <= count - top_k_candidates
            /\ rag' = [rag EXCEPT
                         !.store = IncrementStats(@, R,
                                       CandidateMeta(rag.store, rag.cache, BmOnly)),
                         !.returned = CountReturned(@, R),
                         !.ops = @ + 1]
    /\ UNCHANGED ragRest

RagNext ==
    \/ \E r \in Records : AddMemory(r)
    \/ \E r \in Records : DeleteMemory(r)
    \/ \E s \in Strategies, n \in TopKs : SearchFresh(s, n)
    \/ \E n \in TopKs : SearchHybridBm25(n)

SpecRag == RagInit /\ [][RagNext]_vars

\* C16: a record's stored access_count always equals the number of times a
\* search has returned it (every search adds exactly 1 to each record it
\* returns and leaves the others alone).
C16_AccessCount ==
    \A r \in rag.ids : rag.store[r] = rag.returned[r]


\* ---------------------------------------------------------------------------
\* SpecSkill: the skills, the active skill and the tool manifest.
\* HostAgent.activate_skill / deactivate_skill and Toolbox.get_tool_definitions
\* are the repository's code.  Toolbox.manage_skills and
\* SkillManager.load_skill_context are called by that code (host_agent.py:665,
\* 159) and defined nowhere in it: they follow the specification (4.5, "Tool
\* Dispatcher", and 4.4, "Skill Registry").
\* ---------------------------------------------------------------------------
MaxSkillOps == 4
SkillNames == {"pdf", "git"}
\* the skill names a manage_skills call may carry
SkillArgs == SkillNames \cup {"ghost"}
SkillActions == {"list_available", "activate", "deactivate_all"}

\* the tool a loaded skill declares (get_tool_definitions_json: skill_<name>)
SkillTool == [pdf |-> "skill_pdf", git |-> "skill_git"]
DeclaredTools(n) == {SkillTool[n]}
DiscoveryTool == "manage_skills"

\* the list get_tool_definitions returns
CoreTools ==
    {"internet_search", "browse_website", "invoke_skill",
     "execute_shell_command", "add_automation_skill", "scan_directory_projects",
     "remember_user_fact", "list_directory_files", "search_files_by_keyword",
     "read_file_content", "add_time_sentinel", "add_file_sentinel",
     "add_behavior_sentinel", "list_active_sentinels", "remove_sentinel"}

\* get_tool_definitions: the same list whatever skill is active
GetToolDefinitions(active_skill, loaded_skills) == CoreTools

ResultActivated == "SUCCESS: Skill activated."
ResultNotFound == "Error: Skill not found or failed to load."
ResultDeactivated == "Skill deactivated. Returned to General Mode."
ResultIndex == "skill index"

\* load_skill_context(skill_name): the SOP text of a skill of the registry,
\* nothing for any other name
LoadSkillContext(n, loaded_skills) == IF n \in loaded_skills THEN "SOP" ELSE ""

\* activate_skill(skill_name)
ActivateSkill(s, n) ==
    IF LoadSkillContext(n, s.loaded_skills) = ""
    THEN [s EXCEPT !.result = ResultNotFound]
    ELSE [s EXCEPT !.active_skill = n, !.result = ResultActivated]

\* deactivate_skill()
DeactivateSkill(s) == [s EXCEPT !.active_skill = NoSkill, !.result = ResultDeactivated]

SkillInit ==
    /\ skill \in {[SkillIdle EXCEPT !.loaded_skills = L, !.imported_skills = L,
                                     !.dirs = L] : L \in SUBSET SkillNames}
    /\ loop = LoopIdle
    /\ rag = RagIdle
    /\ sentinel_engine = EngineIdle
    /\ disk = DiskIdle
    /\ ws = WsIdle
    /\ mem_log = MemLogIdle
    /\ agent = AgentIdle
    /\ dispatch = DispatchIdle
    /\ prompt = PromptIdle
    /\ rag_store = RagStoreIdle
    /\ budget = NoBudget
    /\ SrvQuiet
    /\ full_log = <<>> /\ window_size = DefaultWindow
    /\ context = <<>> /\ memPhase = "idle"

\* skill.own[session_id]: the skill the manage_skills calls of the turns of
\* that session have left active
OwnSkill(s, session_id) ==
    [s EXCEPT !.own[session_id] =
        CASE s.result = ResultActivated -> s.active_skill
          [] s.result = ResultDeactivated -> NoSkill
          [] OTHER -> @]

\* the LLM of a turn calls manage_skills(action, skill_name):
\* _route_tool_execution hands the call to the toolbox, which changes the
\* agent's active skill
ManageSkills(action, n) ==
    /\ skill.ops < MaxSkillOps
    /\ LET s == [skill EXCEPT !.before = skill.active_skill, !.fresh = FALSE,
                              !.ops = @ + 1]
       IN \E session_id \in Sessions :
            skill' = OwnSkill(CASE action = "activate" -> ActivateSkill(s, n)
                                [] action = "deactivate_all" -> DeactivateSkill(s)
                                [] OTHER -> [s EXCEPT !.result = ResultIndex],
                              session_id)
    /\ UNCHANGED skillRest

\* skill_section of _build_dynamic_system_prompt: the SOP of the active
\* skill, nothing when it has none, the skill index when no skill is active
SkillSection(active_skill, loaded_skills) ==
    IF active_skill # NoSkill
    THEN IF LoadSkillContext(active_skill, loaded_skills) # ""
         THEN [kind |-> "ACTIVE SKILL", skill |-> active_skill]
         ELSE [kind |-> "", skill |-> NoSkill]
    ELSE [kind |-> "AVAILABLE SKILLS", skill |-> NoSkill]

\* a pass of the Supervisor loop of a turn on session_id builds the system
\* prompt
BuildDynamicSystemPrompt(session_id) ==
    /\ skill' = [skill EXCEPT !.built =
                   [session_id |-> session_id, own |-> skill.own[session_id],
                    skill_section |-> SkillSection(skill.active_skill,
                                                   skill.loaded_skills)]]
    /\ UNCHANGED skillRest

\* the next pass of the ReAct loop asks the toolbox for the manifest
\* (current_tools) and gives it to the LLM
LlmIteration ==
    /\ ~skill.fresh
    /\ skill' = [skill EXCEPT
                   !.current_tools = GetToolDefinitions(skill.active_skill,
                                                        skill.loaded_skills),
                   !.fresh = TRUE]
    /\ UNCHANGED skillRest

\* what learn_skill returns
Learned == "Successfully learned skill"
LearnFailed == "Failed to learn skill"
LearnExists == "Skill already exists. Please delete it first if you want to update."

\* the outcome of a learn_skill call, with the registry and the config's
\* imported_skills as they were before it
LearnOutcome(s, n, status) ==
    [s EXCEPT !.learned = [status |-> status, skill_name |-> n,
                           loaded_skills |-> skill.loaded_skills,
                           imported_skills |-> skill.imported_skills]]

\* learn_skill(url_or_path) for a source whose skill name is n: a URL is
\* refused when the directory exists, else it is cloned; a local path is
\* copied over the directory.  Then _setup_environment and
\* _parse_and_register, either of which may raise (raises), and
\* _persist_skill.  The except branch returns the failure text.
LearnSkill(n, from_url, raises) ==
    /\ skill.ops < MaxSkillOps
    /\ LET s == [skill EXCEPT !.ops = @ + 1]
           copied == [s EXCEPT !.dirs = @ \cup {n}]
       IN skill' =
            IF from_url /\ n \in skill.dirs
            THEN LearnOutcome(s, n, LearnExists)
            ELSE IF raises
            THEN LearnOutcome(copied, n, LearnFailed)
            ELSE LearnOutcome([copied EXCEPT !.loaded_skills = @ \cup {n},
                                             !.imported_skills = @ \cup {n}],
                              n, Learned)
    /\ UNCHANGED skillRest

\* delete_skill, for a skill the config lists: removes it from the registry
\* and the config and removes its directory; the active skill is not touched
DeleteSkill(n) ==
    /\ skill.ops < MaxSkillOps
    /\ n \in skill.imported_skills
    /\ skill' = [skill EXCEPT !.loaded_skills = @ \ {n},
                              !.imported_skills = @ \ {n},
                              !.dirs = @ \ {n}, !.ops = @ + 1]
    /\ UNCHANGED skillRest

SkillNext ==
    \/ \E action \in SkillActions, n \in SkillArgs : ManageSkills(action, n)
    \/ LlmIteration
    \/ \E session_id \in Sessions : BuildDynamicSystemPrompt(session_id)
    \/ \E n \in SkillNames, from_url \in BOOLEAN, raises \in BOOLEAN :
          LearnSkill(n, from_url, raises)
    \/ \E n \in SkillNames : DeleteSkill(n)

SpecSkill == SkillInit /\ [][SkillNext]_vars

\* C17: the manifest given to the LLM right after a successful
\* manage_skills activate(n) holds every tool skill n declares; right after
\* deactivate_all it holds no skill's tool and offers the discovery tool; an
\* activate that returned the error left the active skill as it was.
C17_SkillVisibility ==
    /\ (skill.fresh /\ skill.result = ResultActivated)
         => DeclaredTools(skill.active_skill) \subseteq skill.current_tools
    /\ (skill.fresh /\ skill.result = ResultDeactivated)
         => /\ \A n \in SkillNames : DeclaredTools(n) \cap skill.current_tools = {}
            /\ DiscoveryTool \in skill.current_tools
    /\ skill.result = ResultNotFound => skill.active_skill = skill.before


\* ---------------------------------------------------------------------------
\* SpecSentinel: the Sentinel Engine (sentinel_engine.py) and sentinels.json.
\* sentinels is the dict kind -> id -> payload, here kind -> set of
\* [id, payload] with one entry per id.  An id is "<kind>_<int(time.time())>":
\* the clock's second, inside the kind's own dict.  json.dump and json.load
\* keep such a document (string keys, integer and string values) as it is.
\* added records, for the claims, each sentinel an add created and no remove
\* has deleted since.
\* ---------------------------------------------------------------------------
MaxClock == 1
MaxSentinelOps == 3
Seconds == 0 .. MaxClock
\* what the caller hands to an add: the kind's payload and the description
Payloads == {"Heartbeat", "Backup"}

\* self.sentinels[kind][s_id] = payload
Put(m, id, p) == {e \in m : e.id # id} \cup {[id |-> id, payload |-> p]}
\* del self.sentinels[kind][s_id]
Del(m, id) == {e \in m : e.id # id}
HasId(m, id) == \E e \in m : e.id = id

\* save_config: the whole dict replaces the file
SaveConfig(e) == [e EXCEPT !.file = [exists |-> TRUE, data |-> e.sentinels]]

\* load_config: the file's document, when there is a file
LoadConfig(e) == IF e.file.exists THEN [e EXCEPT !.sentinels = e.file.data] ELSE e

\* the three adds put the payload under the id of the current second and save
AddUnder(e, kind, p) ==
    SaveConfig([e EXCEPT !.sentinels[kind] = Put(@, e.clock, p),
                         !.added = @ \cup {[kind |-> kind, id |-> e.clock,
                                            payload |-> p]},
                         !.loaded = FALSE, !.ops = @ + 1, !.affected = kind])

\* the ids of a dict of sentinels, in the order the restore loops take them
RECURSIVE IdsOf(_)
IdsOf(m) ==
    IF m = {} THEN <<>>
    ELSE LET id == CHOOSE i \in {e.id : e \in m} : \A j \in {e.id : e \in m} : i <= j
         IN  <<id>> \o IdsOf(Del(m, id))

\* _schedule_time_job: one more job of the schedule module, tagged s_id
ScheduleTimeJob(e, id) == [e EXCEPT !.jobs = Append(@, id)]
\* _restore_time_sentinels: schedule.clear(), then a job per time sentinel
RestoreTimeSentinels(e) == [e EXCEPT !.jobs = IdsOf(e.sentinels["time"])]
\* _restore_file_sentinels: unschedule_all(), then a watch per file sentinel
\* (the watched paths are taken to exist still)
RestoreFileSentinels(e) == [e EXCEPT !.watches = IdsOf(e.sentinels["file"])]
\* _hook_keyboard: one more hotkey of the keyboard module
HookKeyboard(e, id) == [e EXCEPT !.hotkeys = Append(@, id)]
\* _restore_behavior_sentinels: unhook_all(), then a hotkey per behavior sentinel
RestoreBehaviorSentinels(e) == [e EXCEPT !.hotkeys = IdsOf(e.sentinels["behavior"])]

\* the callback is invoked for a sentinel of the kind
Trigger(e, kind) ==
    [e EXCEPT !.last_trigger = [n |-> 1, kind |-> kind, running |-> e.running]]

SentinelInit ==
    /\ sentinel_engine = [EngineIdle EXCEPT !.running = TRUE, !.observing = TRUE,
                                            !.thread = "check"]
    /\ disk = DiskIdle
    /\ ws = WsIdle
    /\ mem_log = MemLogIdle
    /\ agent = AgentIdle
    /\ dispatch = DispatchIdle
    /\ prompt = PromptIdle
    /\ rag_store = RagStoreIdle
    /\ loop = LoopIdle
    /\ rag = RagIdle
    /\ skill = SkillIdle
    /\ budget = NoBudget
    /\ SrvQuiet
    /\ full_log = <<>> /\ window_size = DefaultWindow
    /\ context = <<>> /\ memPhase = "idle"

CanOperate == sentinel_engine.running /\ sentinel_engine.ops < MaxSentinelOps

AddTimeSentinel(p) ==
    /\ CanOperate
    /\ sentinel_engine' =
         ScheduleTimeJob(AddUnder(sentinel_engine, "time", p), sentinel_engine.clock)
    /\ UNCHANGED engineRest

\* add_file_sentinel refuses a path that does not exist
AddFileSentinel(p, path_exists) ==
    /\ CanOperate
    /\ sentinel_engine' =
         IF path_exists
         THEN RestoreFileSentinels(AddUnder(sentinel_engine, "file", p))
         ELSE [sentinel_engine EXCEPT !.loaded = FALSE, !.ops = @ + 1,
                                      !.affected = ""]
    /\ UNCHANGED engineRest

AddBehaviorSentinel(p) ==
    /\ CanOperate
    /\ sentinel_engine' =
         HookKeyboard(AddUnder(sentinel_engine, "behavior", p), sentinel_engine.clock)
    /\ UNCHANGED engineRest

\* the restore of the kind's registrations
Restore(e, kind) ==
    CASE kind = "time" -> RestoreTimeSentinels(e)
      [] kind = "file" -> RestoreFileSentinels(e)
      [] OTHER -> RestoreBehaviorSentinels(e)

\* remove_sentinel(s_type, s_id): deletes, saves and restores the kind when
\* the id is there
RemoveSentinel(kind, id) ==
    /\ CanOperate
    /\ sentinel_engine' =
         IF HasId(sentinel_engine.sentinels[kind], id)
         THEN Restore(SaveConfig([sentinel_engine EXCEPT
                            !.sentinels[kind] = Del(@, id),
                            !.added = {a \in @ : ~(a.kind = kind /\ a.id = id)},
                            !.loaded = FALSE, !.ops = @ + 1, !.affected = kind]), kind)
         ELSE [sentinel_engine EXCEPT !.loaded = FALSE, !.ops = @ + 1,
                                      !.affected = ""]
    /\ UNCHANGED engineRest

\* a second passes
ClockTick ==
    /\ sentinel_engine.clock < MaxClock
    /\ sentinel_engine' = [sentinel_engine EXCEPT !.clock = @ + 1]
    /\ UNCHANGED engineRest

\* the server shuts down: stop() clears running and stops and joins the
\* file observer; the schedule thread is not joined, the jobs and the
\* hotkeys stay
EngineStop ==
    /\ sentinel_engine.running
    /\ sentinel_engine.restarts = 0
    /\ sentinel_engine' = [sentinel_engine EXCEPT
                             !.running = FALSE, !.loaded = FALSE,
                             !.observing = FALSE, !.affected = "",
                             !.at_shutdown = sentinel_engine.sentinels]
    /\ UNCHANGED engineRest

\* the server starts again: a new process and a new SentinelEngine (empty
\* dict, nothing registered), then start(), which loads the file, starts an
\* observer, restores the three kinds and starts the schedule thread
EngineStart ==
    /\ ~sentinel_engine.running
    /\ sentinel_engine' =
         [RestoreBehaviorSentinels(RestoreTimeSentinels(RestoreFileSentinels(
            LoadConfig([sentinel_engine EXCEPT !.sentinels = NoSentinels]))))
            EXCEPT !.running = TRUE, !.loaded = TRUE, !.restarts = @ + 1,
                   !.observing = TRUE, !.thread = "check", !.affected = ""]
    /\ UNCHANGED engineRest

\* _run_loop: `while self.running`
RunLoopCheck ==
    /\ sentinel_engine.thread = "check"
    /\ sentinel_engine' = [sentinel_engine EXCEPT
                             !.thread = IF sentinel_engine.running THEN "run" ELSE "none"]
    /\ UNCHANGED engineRest

\* _run_loop: schedule.run_pending() runs a job that is due
RunPendingJob ==
    /\ sentinel_engine.thread = "run"
    /\ sentinel_engine.jobs # <<>>
    /\ sentinel_engine' = Trigger(sentinel_engine, "time")
    /\ UNCHANGED engineRest

\* _run_loop: run_pending() returns, time.sleep(1)
RunLoopSleep ==
    /\ sentinel_engine.thread = "run"
    /\ sentinel_engine' = [sentinel_engine EXCEPT !.thread = "check"]
    /\ UNCHANGED engineRest

\* SentinelEventHandler.on_any_event: the started observer reports a change
\* of a watched path
FileEvent ==
    /\ sentinel_engine.observing
    /\ sentinel_engine.watches # <<>>
    /\ sentinel_engine' = Trigger(sentinel_engine, "file")
    /\ UNCHANGED engineRest

\* the keyboard module calls the lambda of a hotkey the user pressed
HotkeyPressed ==
    /\ sentinel_engine.hotkeys # <<>>
    /\ sentinel_engine' = Trigger(sentinel_engine, "behavior")
    /\ UNCHANGED engineRest

SentinelNext ==
    \/ \E p \in Payloads : AddTimeSentinel(p)
    \/ \E p \in Payloads, path_exists \in BOOLEAN : AddFileSentinel(p, path_exists)
    \/ \E p \in Payloads : AddBehaviorSentinel(p)
    \/ \E kind \in Kinds, id \in Seconds : RemoveSentinel(kind, id)
    \/ ClockTick
    \/ EngineStop
    \/ EngineStart
    \/ RunLoopCheck
    \/ RunPendingJob
    \/ RunLoopSleep
    \/ FileEvent
    \/ HotkeyPressed

SpecSentinel == SentinelInit /\ [][SentinelNext]_vars

\* the sentinels the engine holds, as kind/id/payload triples
Held ==
    {[kind |-> k, id |-> e.id, payload |-> e.payload] :
        <<k, e>> \in {<<k, e>> \in Kinds \X UNION {sentinel_engine.sentinels[k] : k \in Kinds} :
                         e \in sentinel_engine.sentinels[k]}}

\* C18: right after a restart the engine holds the sentinels it held at
\* shutdown: every sentinel added and not removed, with its payload, and no
\* other one.
C18_SentinelPersistence ==
    sentinel_engine.loaded =>
        /\ sentinel_engine.sentinels = sentinel_engine.at_shutdown
        /\ Held = sentinel_engine.added


\* ---------------------------------------------------------------------------
\* C19: sentinel triggers (checked in Spec)
\* ---------------------------------------------------------------------------
\* the turns sentinel triggers have started
SentinelTurns == {t \in Turns : turn[t].via = "sentinel"}

\* the system messages of a sentinel trigger in the main session
SentinelMessages ==
    {i \in 1..Len(transcript[MainSession]) :
        /\ transcript[MainSession][i].role = "system"
        /\ transcript[MainSession][i].content = SentinelAlert}

\* the user messages a turn has written
UserWrites(t) == {i \in 1..Len(wrote[t]) : wrote[t][i].role = "user"}

\* what the clients got of turn t, its done included
Broadcast(t) == SelectSeq(client, LAMBDA e : e.turn = t)

\* every trigger has one system message and one turn of the main session
OneMessageOneTurn ==
    /\ Cardinality(SentinelMessages) = Cardinality(SentinelTurns)
    /\ \A t \in SentinelTurns :
         /\ turn[t].session_id = MainSession
         /\ Cardinality(UserWrites(t)) = IF turn[t].pc \in {"scheduled", "queued"} THEN 0 ELSE 1

\* what was broadcast of turn t is, event by event, what the turn yielded
\* followed by the wrapper's done, each tagged with the main session
BroadcastInOrder(t) ==
    /\ Len(Broadcast(t)) <= Len(yielded[t]) + 1
    /\ \A i \in 1..Len(Broadcast(t)) :
         /\ Broadcast(t)[i].session_id = MainSession
         /\ IF i <= Len(yielded[t])
            THEN Broadcast(t)[i] = [yielded[t][i] EXCEPT !.session_id = MainSession]
            ELSE Broadcast(t)[i].type = "done"

EndsTheLoop(e) == e.type \in {"done", "error"}

MaxLogLen == 10
MaxSummaries == 2
\* _update_summary_if_needed summarises when the log length is a multiple of 10
SUMMARY_EVERY == 10

Refused == "403 Cannot delete main process session."
NotFound == "404 Session not found"
Deleted == "deleted"
Exists == "400 Session already exists."
Renamed == "renamed"
RenameFailed == "500"

\* the files and the cache entry of session s
Files(s) == [log |-> disk.log[s], summary |-> disk.summary[s],
             cached |-> s \in disk.memory_cache]

Request(op, s, status) == [op |-> op, session |-> s, status |-> status, before |-> Files(s)]

\* the guard of the delete endpoint
ReservedNone(s) == FALSE
Reserved(s) == s = MainSession

SessionsInit ==
    /\ disk = DiskIdle
    /\ ws = WsIdle
    /\ mem_log = MemLogIdle
    /\ agent = AgentIdle
    /\ dispatch = DispatchIdle
    /\ prompt = PromptIdle
    /\ rag_store = RagStoreIdle
    /\ loop = LoopIdle
    /\ rag = RagIdle
    /\ skill = SkillIdle
    /\ sentinel_engine = EngineIdle
    /\ budget = NoBudget
    /\ SrvQuiet
    /\ full_log = <<>> /\ window_size = DefaultWindow
    /\ context = <<>> /\ memPhase = "idle"

\* POST /api/sessions: get_memory caches the session, no file is written
CreateSession(s) ==
    /\ disk' = [disk EXCEPT !.memory_cache = @ \cup {s},
                            !.last = Request("create", s, "created")]
    /\ UNCHANGED diskRest

\* a turn of session s appends a message: the log is read, extended, written
AppendToSession(s) ==
    /\ disk.log[s].len < MaxLogLen
    /\ disk' = [disk EXCEPT !.memory_cache = @ \cup {s},
                            !.log[s] = [exists |-> TRUE, len |-> disk.log[s].len + 1],
                            !.last = Request("append", s, "")]
    /\ UNCHANGED diskRest

\* _update_summary_if_needed(memory of s): the new summary is saved through
\* self.memory, the memory of the agent's default session
UpdateSummaryIfNeeded(s) ==
    /\ s \in disk.memory_cache
    /\ disk.log[s].len > 0
    /\ disk.log[s].len % SUMMARY_EVERY = 0
    /\ disk.summary[MainSession].version < MaxSummaries
    /\ disk' = [disk EXCEPT
                  !.memory_cache = @ \cup {MainSession},
                  !.summary[MainSession] =
                      [exists |-> TRUE, version |-> disk.summary[MainSession].version + 1],
                  !.last = Request("summary", s, "")]
    /\ UNCHANGED diskRest

\* DELETE /api/sessions/{s}/messages: an empty log is written, the summary removed
ClearSessionMessages(s) ==
    /\ disk' = [disk EXCEPT !.memory_cache = @ \cup {s},
                            !.log[s] = [exists |-> TRUE, len |-> 0],
                            !.summary[s] = NoSummary,
                            !.last = Request("clear", s, "cleared")]
    /\ UNCHANGED diskRest

\* a rename request, with what the files of both names and the cache were
\* before it
RenameRequest(s, new_name, status) ==
    [op |-> "rename", session |-> s, status |-> status, before |-> Files(s),
     new_name |-> new_name, before_new |-> Files(new_name),
     cache_before |-> disk.memory_cache]

\* the guard of rename_session: os.path.exists(new_path)
TargetTakenNever(new_name) == FALSE
TargetTaken(new_name) == disk.log[new_name].exists

\* PATCH /api/sessions/{s}: the files of s are moved to new_name unless a log
\* of that name exists.  os.rename onto an existing summary replaces it or
\* raises, depending on the platform (overwrites).
RenameSession(s, new_name, overwrites) ==
    /\ new_name # s
    /\ LET cached == disk.memory_cache \cup {s}
           clash == disk.summary[s].exists /\ disk.summary[new_name].exists
                    /\ ~overwrites
           log == IF disk.log[s].exists
                  THEN [disk.log EXCEPT ![new_name] = disk.log[s], ![s] = NoLog]
                  ELSE disk.log
           summary == IF disk.summary[s].exists
                      THEN [disk.summary EXCEPT ![new_name] = disk.summary[s],
                                                ![s] = NoSummary]
                      ELSE disk.summary
       IN disk' =
            IF TargetTaken(new_name)
            THEN [disk EXCEPT !.memory_cache = cached,
                              !.last = RenameRequest(s, new_name, Exists)]
            ELSE IF clash
            THEN [disk EXCEPT !.memory_cache = cached, !.log = log,
                              !.last = RenameRequest(s, new_name, RenameFailed)]
            ELSE [disk EXCEPT !.memory_cache = cached \ {s}, !.log = log,
                              !.summary = summary,
                              !.last = RenameRequest(s, new_name, Renamed)]
    /\ UNCHANGED diskRest

\* ConversationMemory.delete_session: removes the log and the summary that
\* exist, and tells whether there was a log
DeleteFiles(d, s) == [d EXCEPT !.log[s] = NoLog, !.summary[s] = NoSummary]

\* DELETE /api/sessions/{s}
DeleteSession(s) ==
    /\ disk' =
         IF Reserved(s)
         THEN [disk EXCEPT !.last = Request("delete", s, Refused)]
         ELSE [DeleteFiles(disk, s) EXCEPT
                 !.memory_cache = @ \ {s},
                 !.last = Request("delete", s,
                                  IF disk.log[s].exists THEN Deleted ELSE NotFound)]
    /\ UNCHANGED diskRest

SessionsNext ==
    \/ \E s \in Sessions : CreateSession(s)
    \/ \E s \in Sessions : AppendToSession(s)
    \/ \E s \in Sessions : UpdateSummaryIfNeeded(s)
    \/ \E s \in Sessions : ClearSessionMessages(s)
    \/ \E s \in Sessions, new_name \in Sessions, overwrites \in BOOLEAN :
          RenameSession(s, new_name, overwrites)
    \/ \E s \in Sessions : DeleteSession(s)

SpecSessions == SessionsInit /\ [][SessionsNext]_vars

\* C20: a delete request for resonance_main is refused with 403 and leaves
\* the session's log, summary and cache entry as they were; a delete request
\* for any other session that has a log removes its log and its summary.
C20_MainUndeletable ==
    disk.last.op = "delete" =>
        IF disk.last.session = MainSession
        THEN /\ disk.last.status = Refused
             /\ Files(MainSession) = disk.last.before
        ELSE disk.last.before.log.exists =>
                /\ disk.last.status = Deleted
                /\ ~disk.log[disk.last.session].exists
                /\ ~disk.summary[disk.last.session].exists

\* a delete of resonance_main was refused while the session had messages, a
\* summary and a cache entry
C20_Witness ==
    /\ disk.last.op = "delete"
    /\ disk.last.session = MainSession
    /\ disk.last.status = Refused
    /\ disk.log[MainSession].len > 0
    /\ disk.summary[MainSession].exists
    /\ MainSession \in disk.memory_cache


\* ---------------------------------------------------------------------------
\* C21: "/stop" (checked in Spec)
\* ---------------------------------------------------------------------------
\* this step is the handling of a "/stop" for session s
StopHandled(s) ==
    /\ Len(client') = Len(client) + 1
    /\ client'[Len(client')].type = "status"
    /\ client'[Len(client')].content \in AbortedContents
    /\ client'[Len(client')].session_id = s

\* C21: handling "/stop" for session s sets the cancel token of s, sends the
\* client a status event that says "Aborted" for s, whether or not a turn
\* runs on s, and starts no turn.
C21_StopAcknowledged ==
    [][\A s \in Sessions :
          StopHandled(s) =>
              /\ interrupt_events'[s] = "set"
              /\ turn' = turn
      ]_vars


\* ---------------------------------------------------------------------------
\* The WebSocket endpoint /ws/chat, one connection: the receive loop, the
\* worker threads it submits, the loop's scheduled puts and the sender task.
\* ws.inbox is the texts received so far; ws.sent is what the socket was sent,
\* in order; an event's turn is the number of the task it belongs to (the
\* program keeps no such number: it is kept to state the claims).
\* ---------------------------------------------------------------------------

\* inbound messages handled on one connection
MaxInbound == 2

\* events one chat() yields before it ends
MaxYield == 1

\* a key the JSON object does not have
Absent == "<absent>"

\* a text that is not JSON: json.loads raises and no key is read
InvalidJson == [message |-> "{bad", session_id |-> Absent, id |-> Absent]

InboundTexts == {Absent, "", "/stop", "hello"}

InboundIds == {Absent, "m1", "m2"}

InboundPayloads ==
    [message : InboundTexts, session_id : Sessions \cup {Absent}, id : InboundIds]
        \cup {InvalidJson}

\* dict.get(key, default)
Get(payload, key, default) ==
    IF payload[key] = Absent THEN default ELSE payload[key]

WsEvent(type, content, session_id, id, n) ==
    [type |-> type, content |-> content, session_id |-> session_id, id |-> id,
     turn |-> n]

EchoNoId(user_input, session_id, msg_id, n) ==
    WsEvent("user", user_input, session_id, NoContent, n)

\* {"type": "user", "content": user_input, "session_id": session_id, "id": msg_id}
UserEcho(user_input, session_id, msg_id, n) ==
    WsEvent("user", user_input, session_id, msg_id, n)

WsDone(session_id, n) == WsEvent("done", Absent, session_id, Absent, n)

IsChat(payload) ==
    /\ payload # InvalidJson
    /\ payload.message \notin {Absent, "", "/stop"}

\* the receive loop handles one text
WsReceive(payload) ==
    /\ Len(ws.inbox) < MaxInbound
    /\ IF payload = InvalidJson
       THEN ws' = [ws EXCEPT
                !.inbox = Append(@, payload),
                !.sent = Append(@, WsEvent("error", "Invalid JSON format",
                                           Absent, Absent, NoTurn))]
       ELSE LET user_input == Get(payload, "message", NoContent)
                session_id == Get(payload, "session_id", MainSession)
                msg_id == Get(payload, "id", NoContent)
                n == Len(ws.tasks) + 1
            IN  IF user_input \in {NoContent, ""}
                THEN ws' = [ws EXCEPT !.inbox = Append(@, payload)]
                ELSE IF user_input = "/stop"
                THEN ws' = [ws EXCEPT
                         !.inbox = Append(@, payload),
                         !.interrupt_events[session_id] =
                             IF @ = "absent" THEN @ ELSE "set",
                         !.sent = Append(@, WsEvent("status", StatusAborted,
                                                    session_id, Absent, NoTurn)),
                         !.event_queue = Append(@, WsDone(session_id, NoTurn))]
                ELSE ws' = [ws EXCEPT
                         !.inbox = Append(@, payload),
                         !.sent = Append(@, UserEcho(user_input, session_id,
                                                     msg_id, n)),
                         !.tasks = Append(@, [session_id |-> session_id,
                                              pc |-> "submitted",
                                              yielded |-> 0])]
    /\ UNCHANGED wsRest

\* a pool thread starts chat(): the session's cancel token is created or cleared
WsWorkerStart(n) ==
    /\ n \in 1..Len(ws.tasks)
    /\ ws.tasks[n].pc = "submitted"
    /\ ws' = [ws EXCEPT !.tasks[n].pc = "running",
                        !.interrupt_events[ws.tasks[n].session_id] = "clear"]
    /\ UNCHANGED wsRest

\* chat() yields one event and the wrapper schedules its put, as it is
WsWorkerYield(n, type) ==
    /\ n \in 1..Len(ws.tasks)
    /\ ws.tasks[n].pc = "running"
    /\ ws.tasks[n].yielded < MaxYield
    /\ ws' = [ws EXCEPT !.tasks[n].yielded = @ + 1,
                        !.ready = Append(@, WsEvent(type, "x", Absent, Absent, n))]
    /\ UNCHANGED wsRest

\* chat() is exhausted: the wrapper schedules the put of the done event
WsWorkerDone(n) ==
    /\ n \in 1..Len(ws.tasks)
    /\ ws.tasks[n].pc = "running"
    /\ ws' = [ws EXCEPT !.tasks[n].pc = "done",
                        !.ready = Append(@, WsDone(ws.tasks[n].session_id, n))]
    /\ UNCHANGED wsRest

\* chat() raises: the wrapper schedules the put of an error event, and no done
WsWorkerError(n) ==
    /\ n \in 1..Len(ws.tasks)
    /\ ws.tasks[n].pc = "running"
    /\ ws' = [ws EXCEPT !.tasks[n].pc = "failed",
                        !.ready = Append(@, WsEvent("error", "Internal Agent Error",
                                                    ws.tasks[n].session_id,
                                                    Absent, n))]
    /\ UNCHANGED wsRest

\* the loop runs the oldest scheduled put
WsLoopPut ==
    /\ ws.ready # <<>>
    /\ ws' = [ws EXCEPT !.ready = Tail(@),
                        !.event_queue = Append(@, Head(ws.ready))]
    /\ UNCHANGED wsRest

\* sender_task: takes the oldest event of the queue and sends it, as it is
WsSenderTask ==
    /\ ws.event_queue # <<>>
    /\ ws' = [ws EXCEPT !.event_queue = Tail(@),
                        !.sent = Append(@, Head(ws.event_queue))]
    /\ UNCHANGED wsRest

WsInit ==
    /\ ws = WsIdle
    /\ budget = NoBudget
    /\ SrvQuiet
    /\ full_log = <<>>
    /\ window_size = DefaultWindow
    /\ context = <<>>
    /\ memPhase = "idle"
    /\ loop = LoopIdle
    /\ rag = RagIdle
    /\ skill = SkillIdle
    /\ sentinel_engine = EngineIdle
    /\ disk = DiskIdle
    /\ mem_log = MemLogIdle
    /\ agent = AgentIdle
    /\ dispatch = DispatchIdle
    /\ prompt = PromptIdle
    /\ rag_store = RagStoreIdle

WsNext ==
    \/ \E payload \in InboundPayloads : WsReceive(payload)
    \/ \E n \in 1..MaxInbound : WsWorkerStart(n)
    \/ \E n \in 1..MaxInbound, type \in {"status", "delta"} : WsWorkerYield(n, type)
    \/ \E n \in 1..MaxInbound : WsWorkerDone(n)
    \/ \E n \in 1..MaxInbound : WsWorkerError(n)
    \/ WsLoopPut
    \/ WsSenderTask

SpecWs == WsInit /\ [][WsNext]_vars

\* the chat messages received so far, in order
RECURSIVE ChatsOf(_)
ChatsOf(inbox) ==
    IF inbox = <<>> THEN <<>>
    ELSE IF IsChat(inbox[Len(inbox)])
         THEN Append(ChatsOf(SubSeq(inbox, 1, Len(inbox) - 1)), inbox[Len(inbox)])
         ELSE ChatsOf(SubSeq(inbox, 1, Len(inbox) - 1))

\* sent[i] acknowledges the chat message payload, the n-th of the connection
AcksAt(i, payload, n) ==
    /\ ws.sent[i].type = "user"
    /\ ws.sent[i].turn = n
    /\ ws.sent[i].content = payload.message
    /\ ws.sent[i].session_id =
           (IF payload.session_id = Absent THEN MainSession ELSE payload.session_id)
    /\ ws.sent[i].id = (IF payload.id = Absent THEN NoContent ELSE payload.id)

\* C22: every received message whose text is not empty and not "/stop" has
\* been acknowledged on the socket by one user event with the message's text,
\* its session (resonance_main when it names none) and its id, unchanged, and
\* that event comes before every event of the turn the message started.
C22_UserAck ==
    LET chats == ChatsOf(ws.inbox)
    IN  /\ Len(chats) = Len(ws.tasks)
        /\ \A n \in 1..Len(chats) :
              \E i \in 1..Len(ws.sent) :
                  /\ AcksAt(i, chats[n], n)
                  /\ \A j \in 1..Len(ws.sent) :
                        (ws.sent[j].turn = n /\ j # i) => i < j

\* a message with id "m1" was acknowledged and events of its turn followed
C22_Witness ==
    \E i, j \in 1..Len(ws.sent) :
        /\ i < j
        /\ ws.sent[i].type = "user"
        /\ ws.sent[i].id = "m1"
        /\ ws.sent[j].turn = ws.sent[i].turn
        /\ ws.sent[j].type = "done"


\* ---------------------------------------------------------------------------
\* C23 (Spec): the session tag of delivered events
\* ---------------------------------------------------------------------------

TurnEventTypes == {"status", "delta", "tool", "error", "done"}

\* C23: every status, delta, tool, error and done event of a turn that a client
\* has been sent, by the sender task of its connection or by a broadcast,
\* carries the session_id of the session the turn runs on.
C23_EventsTagged ==
    \A i \in 1..Len(client) :
        (client[i].turn # NoTurn /\ client[i].type \in TurnEventTypes)
            => client[i].session_id = turn[client[i].turn].session_id


\* ---------------------------------------------------------------------------
\* ConversationMemory._append_message on one session's log file, called by
\* several threads (two turn workers and the sentinel thread).  An append
\* reads the whole file, stamps the message, and writes the whole file back;
\* opening the file for writing empties it, and an empty file reads as [].
\* mem_log.now is the wall clock in ticks; mem_log.appended lists the
\* messages whose append has returned.
\* ---------------------------------------------------------------------------

\* appends one thread makes
MaxAppends == 1

\* ticks the clock makes
MaxTicks == 2

\* clock ticks in one millisecond
TicksPerMs == 2

Appenders == {"turn1", "turn2", "sentinel"}

\* the log the session has when the threads start: one message of millisecond 0
EarlierLog ==
    <<[role |-> "user", content |-> <<"earlier", 1>>, timestamp |-> 0, id |-> 0]>>

ThreadIdle == [pc |-> "idle", history |-> <<>>, message |-> <<>>, count |-> 0]

AppendInit ==
    /\ mem_log = [file |-> EarlierLog, now |-> TicksPerMs,
                  thread |-> [a \in Appenders |-> ThreadIdle],
                  appended |-> <<>>]
    /\ budget = NoBudget
    /\ SrvQuiet
    /\ full_log = <<>>
    /\ window_size = DefaultWindow
    /\ context = <<>>
    /\ memPhase = "idle"
    /\ loop = LoopIdle
    /\ rag = RagIdle
    /\ skill = SkillIdle
    /\ sentinel_engine = EngineIdle
    /\ disk = DiskIdle
    /\ ws = WsIdle
    /\ agent = AgentIdle
    /\ dispatch = DispatchIdle
    /\ prompt = PromptIdle
    /\ rag_store = RagStoreIdle

\* _read_full_log: the list in the file; [] when the file is empty
ReadFullLog == mem_log.file

\* int(time.time() * 1000): the millisecond the tick lies in
MessageId(now) == now \div TicksPerMs

\* history = self._read_full_log()
AppendRead(a) ==
    /\ mem_log.thread[a].pc = "idle"
    /\ mem_log.thread[a].count < MaxAppends
    /\ mem_log' = [mem_log EXCEPT
           !.thread[a].pc = "read",
           !.thread[a].history = ReadFullLog,
           !.thread[a].message =
               [role |-> IF a = "sentinel" THEN "system" ELSE "user",
                content |-> <<a, mem_log.thread[a].count + 1>>]]
    /\ UNCHANGED mem_logRest

\* message['timestamp'] = time.time(); message['id'] = str(int(time.time() * 1000));
\* history.append(message)
AppendStamp(a) ==
    /\ mem_log.thread[a].pc = "read"
    /\ LET m == mem_log.thread[a].message
           stamped == [role |-> m.role, content |-> m.content,
                       timestamp |-> mem_log.now, id |-> MessageId(mem_log.now)]
       IN  mem_log' = [mem_log EXCEPT
               !.thread[a].pc = "stamped",
               !.thread[a].message = stamped,
               !.thread[a].history = Append(@, stamped)]
    /\ UNCHANGED mem_logRest

\* _write_full_log: open(self.save_path, 'w') empties the file
AppendOpen(a) ==
    /\ mem_log.thread[a].pc = "stamped"
    /\ mem_log' = [mem_log EXCEPT !.thread[a].pc = "open", !.file = <<>>]
    /\ UNCHANGED mem_logRest

\* _write_full_log: json.dump and close; the append returns
AppendDump(a) ==
    /\ mem_log.thread[a].pc = "open"
    /\ mem_log' = [mem_log EXCEPT
           !.thread[a] = [ThreadIdle EXCEPT !.count = mem_log.thread[a].count + 1],
           !.file = mem_log.thread[a].history,
           !.appended = Append(@, mem_log.thread[a].message)]
    /\ UNCHANGED mem_logRest

\* time passes
AppendTick ==
    /\ mem_log.now < TicksPerMs + MaxTicks
    /\ mem_log' = [mem_log EXCEPT !.now = @ + 1]
    /\ UNCHANGED mem_logRest

AppendNext ==
    \/ \E a \in Appenders : AppendRead(a)
    \/ \E a \in Appenders : AppendStamp(a)
    \/ \E a \in Appenders : AppendOpen(a)
    \/ \E a \in Appenders : AppendDump(a)
    \/ AppendTick

SpecAppend == AppendInit /\ [][AppendNext]_vars

\* no append is under way
AppendsQuiet == \A a \in Appenders : mem_log.thread[a].pc = "idle"

Occurrences(m, log) == Cardinality({i \in 1..Len(log) : log[i] = m})

\* C24: once every append that was started has returned, the log holds each
\* appended message exactly once and the messages it held before, unchanged,
\* whatever the interleaving of the appends was.
C24_AtomicAppend ==
    AppendsQuiet =>
        /\ \A k \in 1..Len(mem_log.appended) :
              Occurrences(mem_log.appended[k], mem_log.file) = 1
        /\ Len(mem_log.file) >= Len(EarlierLog)
        /\ SubSeq(mem_log.file, 1, Len(EarlierLog)) = EarlierLog

\* C25: the ids of the messages in the log are strictly increasing, hence
\* unique, whatever the timing of the appends was.
C25_IdsIncreasing ==
    \A i, j \in 1..Len(mem_log.file) :
        i < j => mem_log.file[i].id < mem_log.file[j].id


\* ---------------------------------------------------------------------------
\* C26 (SpecSessions): rename
\* ---------------------------------------------------------------------------

\* the last request was a rename of a session to a name whose log exists
RenameOntoTaken == disk.last.op = "rename" /\ disk.last.before_new.log.exists

\* the logs and summaries of both names are what they were before the request
BothFilesUnchanged ==
    /\ disk.log[disk.last.session] = disk.last.before.log
    /\ disk.summary[disk.last.session] = disk.last.before.summary
    /\ disk.log[disk.last.new_name] = disk.last.before_new.log
    /\ disk.summary[disk.last.new_name] = disk.last.before_new.summary

\* the log and the summary the session had are under the new name and nothing
\* is left under the old one
MovedToNewName ==
    /\ disk.log[disk.last.new_name] = disk.last.before.log
    /\ disk.last.before.summary.exists =>
           disk.summary[disk.last.new_name] = disk.last.before.summary
    /\ ~disk.log[disk.last.session].exists
    /\ ~disk.summary[disk.last.session].exists

\* C26 as stated: a rename to a name that is taken fails and leaves the logs
\* and summaries of both sessions and the memory cache unchanged; a rename
\* that succeeds moves the session's log and summary to the new name.
C26_Rename ==
    /\ RenameOntoTaken =>
          /\ disk.last.status = Exists
          /\ BothFilesUnchanged
          /\ disk.memory_cache = disk.last.cache_before
    /\ (disk.last.op = "rename" /\ disk.last.status = Renamed) => MovedToNewName

\* C26, amended: as C26_Rename, but of the memory cache a failed rename keeps
\* every entry and adds at most the entry of the session it was asked to
\* rename, which the endpoint loads before it tries.
C26_RenameLoadsSession ==
    /\ RenameOntoTaken =>
          /\ disk.last.status = Exists
          /\ BothFilesUnchanged
          /\ disk.memory_cache = disk.last.cache_before \cup {disk.last.session}
    /\ (disk.last.op = "rename" /\ disk.last.status = Renamed) => MovedToNewName

\* a rename onto a taken name was refused for a session that has messages and
\* was not in the cache
C26_Witness ==
    /\ RenameOntoTaken
    /\ disk.last.status = Exists
    /\ disk.last.before.log.exists
    /\ disk.last.before.log.len > 0
    /\ disk.last.session \notin disk.last.cache_before


\* ---------------------------------------------------------------------------
\* HostAgent.interrupt and the cancel tokens (interrupt_events): a session has
\* a token once a chat() has run on it; agent.last is the last call, with the
\* tokens as they were before it.
\* ---------------------------------------------------------------------------

TokenSessions == Sessions \cup {"s2"}

\* interrupt() is called with no session
AllSessions == "<None>"

\* HostAgent.interrupt(session_id) on the tokens events
Interrupt(events, session_id) ==
    IF session_id # AllSessions
    THEN [events EXCEPT ![session_id] = IF @ = "absent" THEN @ ELSE "set"]
    ELSE [s \in TokenSessions |-> IF events[s] = "absent" THEN "absent" ELSE "set"]

InterruptInit ==
    /\ agent = [interrupt_events |-> [s \in TokenSessions |-> "absent"],
                last |-> [op |-> "none", session_id |-> AllSessions,
                          before |-> [s \in TokenSessions |-> "absent"]]]
    /\ budget = NoBudget
    /\ SrvQuiet
    /\ full_log = <<>>
    /\ window_size = DefaultWindow
    /\ context = <<>>
    /\ memPhase = "idle"
    /\ loop = LoopIdle
    /\ rag = RagIdle
    /\ skill = SkillIdle
    /\ sentinel_engine = EngineIdle
    /\ disk = DiskIdle
    /\ ws = WsIdle
    /\ mem_log = MemLogIdle
    /\ dispatch = DispatchIdle
    /\ prompt = PromptIdle
    /\ rag_store = RagStoreIdle

\* chat() starts on session s: the token is created if need be, and cleared
ChatBegins(s) ==
    /\ agent' = [interrupt_events |-> [agent.interrupt_events EXCEPT ![s] = "clear"],
                 last |-> [op |-> "chat", session_id |-> s,
                           before |-> agent.interrupt_events]]
    /\ UNCHANGED agentRest

\* interrupt(session_id=s), the "/stop" of the WebSocket endpoint
InterruptSession(s) ==
    /\ agent' = [interrupt_events |-> Interrupt(agent.interrupt_events, s),
                 last |-> [op |-> "interrupt", session_id |-> s,
                           before |-> agent.interrupt_events]]
    /\ UNCHANGED agentRest

\* interrupt(), the stop button of the desktop window
InterruptAll ==
    /\ agent' = [interrupt_events |-> Interrupt(agent.interrupt_events, AllSessions),
                 last |-> [op |-> "interrupt", session_id |-> AllSessions,
                           before |-> agent.interrupt_events]]
    /\ UNCHANGED agentRest

InterruptNext ==
    \/ \E s \in TokenSessions : ChatBegins(s)
    \/ \E s \in TokenSessions : InterruptSession(s)
    \/ InterruptAll

SpecInterrupt == InterruptInit /\ [][InterruptNext]_vars

\* C27: after interrupt(s) the token of s is set and the token of every other
\* session is what it was; after interrupt() the token of every session is
\* set; and the same call made again changes nothing.
C27_CancelFrame ==
    agent.last.op = "interrupt" =>
        /\ IF agent.last.session_id # AllSessions
           THEN /\ agent.interrupt_events[agent.last.session_id] = "set"
                /\ \A o \in TokenSessions \ {agent.last.session_id} :
                      agent.interrupt_events[o] = agent.last.before[o]
           ELSE \A o \in TokenSessions : agent.interrupt_events[o] = "set"
        /\ Interrupt(agent.interrupt_events, agent.last.session_id)
               = agent.interrupt_events


\* ---------------------------------------------------------------------------
\* C28 (Spec): a failing LLM stream
\* ---------------------------------------------------------------------------

\* the turn yielded one error event, and it is the last event it yielded
OneErrorLast(t) ==
    /\ Cardinality({i \in 1..Len(yielded[t]) : yielded[t][i].type = "error"}) = 1
    /\ yielded[t][Len(yielded[t])].type = "error"

\* the wrapper has handed over the done event of turn t, to follow the events
\* the turn yielded
DoneHandedOver(t) ==
    LET done == Event(t, Len(yielded[t]) + 1, "done", "", turn[t].session_id)
    IN  \/ \E i \in 1..Len(loop_ready) :
              loop_ready[i] = [queue |-> QueueOf(t), event |-> done]
        \/ \E i \in 1..Len(event_queue[QueueOf(t)]) : event_queue[QueueOf(t)][i] = done
        \/ \E i \in 1..Len(client) :
              client[i].turn = t /\ client[i].n = done.n /\ client[i].type = "done"

\* a turn that yielded an error has left chat(); once the wrapper has returned
\* the done event is on its way
ErrorEndsTurn ==
    \A t \in Turns :
        SaidError(t) =>
            /\ OneErrorLast(t)
            /\ turn[t].pc \in {"ended", "closed"}
            /\ (turn[t].pc = "closed" /\ turn[t].via # "sync") => DoneHandedOver(t)

\* a turn that yielded an error yields nothing more, writes nothing more, and
\* does not reach the final steps (summary and fact extraction)
NothingAfterError ==
    \A t \in Turns :
        SaidError(t) =>
            /\ yielded'[t] = yielded[t]
            /\ wrote'[t] = wrote[t]
            /\ turn'[t].pc \in {"ended", "closed"}

\* C28: when creating or reading the LLM stream fails the turn yields exactly
\* one error event and after it no status, delta or tool event, writes nothing
\* more to the transcript, skips summarization and fact extraction, and the
\* wrapper still hands over the done event of the turn.
C28_StreamErrorEndsTurn == []ErrorEndsTurn /\ [][NothingAfterError]_vars

\* the stream of a WebSocket turn failed after a delta, and the client has
\* received the error and then the done event
C28_Witness ==
    \E t \in Turns :
        /\ SaidError(t)
        /\ \E i \in 1..Len(yielded[t]) : yielded[t][i].type = "delta"
        /\ turn[t].via = "ws"
        /\ \E i, j \in 1..Len(client) :
              /\ i < j
              /\ client[i].turn = t /\ client[i].type = "error"
              /\ client[j].turn = t /\ client[j].type = "done"


\* ---------------------------------------------------------------------------
\* The tool loop of one ReAct iteration of chat() and _route_tool_execution.
\* A call is the name the LLM gave, the text of its arguments and how the
\* routed function behaves; dispatch.yielded are the events of the loop and
\* dispatch.wrote the messages it appended.
\* ---------------------------------------------------------------------------

\* tool names: a route that reads its arguments, a skill tool, and a name
\* nothing routes
ToolNames == {"read_file_content", "skill_pdf", "no_such_tool"}

\* argument texts: a JSON object, a text that is not JSON, JSON that is no object
ArgumentTexts == {"{\"file_path\": \"a\"}", "{bad", "[]"}

\* what the routed function does when it is called
Behaviours == {"returns", "raises"}

ToolCalls == [name : ToolNames, arguments : ArgumentTexts, behaviour : Behaviours]

\* the parsed arguments: the dict, or what json.loads gave instead
ArgsDict == "dict"
ArgsList == "list"

\* try: args = json.loads(arguments) / except: args = {}
ParseArguments(arguments) ==
    IF arguments = "[]" THEN ArgsList ELSE ArgsDict

\* an exception left _route_tool_execution
Raised == "<raised>"

ErrorUnknownTool(function_name) == "Error: Unknown tool '" \o function_name \o "'"

ErrorExecuting(function_name) == "Error executing " \o function_name \o ": failed"

\* routes that read their arguments with args.get
ReadsArgs(function_name) == function_name = "read_file_content"

\* toolbox.route_skill_tool: None for a name no skill declares
RouteSkillTool(function_name) == NoContent

\* the body of _route_tool_execution, without its exception handler
RouteUnguarded(function_name, args, behaviour, stop) ==
    IF stop THEN ToolCancelled
    ELSE IF ReadsArgs(function_name) /\ args # ArgsDict THEN Raised
    ELSE IF behaviour = "raises" THEN Raised
    ELSE IF function_name = "no_such_tool"
         THEN IF RouteSkillTool(function_name) = NoContent
              THEN ErrorUnknownTool(function_name)
              ELSE RouteSkillTool(function_name)
    ELSE ToolOutput

\* _route_tool_execution: an exception becomes the text of the result
RouteToolExecution(function_name, args, behaviour, stop) ==
    IF RouteUnguarded(function_name, args, behaviour, stop) = Raised
    THEN ErrorExecuting(function_name)
    ELSE RouteUnguarded(function_name, args, behaviour, stop)

DispatchInit ==
    /\ dispatch = DispatchIdle
    /\ prompt = PromptIdle
    /\ rag_store = RagStoreIdle
    /\ budget = NoBudget
    /\ SrvQuiet
    /\ full_log = <<>>
    /\ window_size = DefaultWindow
    /\ context = <<>>
    /\ memPhase = "idle"
    /\ loop = LoopIdle
    /\ rag = RagIdle
    /\ skill = SkillIdle
    /\ sentinel_engine = EngineIdle
    /\ disk = DiskIdle
    /\ ws = WsIdle
    /\ mem_log = MemLogIdle
    /\ agent = AgentIdle

\* the answer of the LLM holds tool calls: add_ai_tool_call records them
DispatchRecord(calls) ==
    /\ dispatch.pc = "idle"
    /\ dispatch' = [dispatch EXCEPT
           !.pc = "tool_top", !.calls = calls, !.tc = 1,
           !.wrote = Append(@, [role |-> "assistant", tool_call_id |-> NoCall,
                                content |-> NoContent])]
    /\ UNCHANGED dispatchRest

\* the head of the loop over the calls: the checkpoint, the arguments, the
\* status event
DispatchTop ==
    /\ dispatch.pc = "tool_top"
    /\ dispatch' =
         IF dispatch.tc > Len(dispatch.calls)
         THEN [dispatch EXCEPT !.pc = "iter_top"]
         ELSE IF dispatch.stop
         THEN [dispatch EXCEPT !.pc = "returned"]
         ELSE [dispatch EXCEPT
                 !.pc = "route",
                 !.args = ParseArguments(dispatch.calls[dispatch.tc].arguments),
                 !.yielded = Append(@, [type |-> "status", content |-> StatusExecuting])]
    /\ UNCHANGED dispatchRest

\* tool_result_raw = self._route_tool_execution(func_name, args, stop_event);
\* an exception that left it would reach the handler of chat(), which yields
\* an error event and ends the turn
DispatchRoute ==
    /\ dispatch.pc = "route"
    /\ LET call == dispatch.calls[dispatch.tc]
           result == RouteToolExecution(call.name, dispatch.args, call.behaviour,
                                        dispatch.stop)
       IN  dispatch' =
             IF result = Raised
             THEN [dispatch EXCEPT
                     !.pc = "returned",
                     !.yielded = Append(@, [type |-> "error", content |-> "Traceback"])]
             ELSE [dispatch EXCEPT !.pc = "tool_event", !.tool_result_raw = result]
    /\ UNCHANGED dispatchRest

\* yield {"type": "tool", ...}
DispatchYield ==
    /\ dispatch.pc = "tool_event"
    /\ dispatch' = [dispatch EXCEPT
           !.pc = "tool_write",
           !.yielded = Append(@, [type |-> "tool",
                                  content |-> dispatch.tool_result_raw])]
    /\ UNCHANGED dispatchRest

\* session_memory.add_tool_message(tool_result, tc.id), and on to the next call
DispatchWrite ==
    /\ dispatch.pc = "tool_write"
    /\ dispatch' = [dispatch EXCEPT
           !.pc = "tool_top", !.tc = @ + 1,
           !.wrote = Append(@, [role |-> "tool", tool_call_id |-> dispatch.tc,
                                content |-> WithPlanHint(dispatch.tool_result_raw)])]
    /\ UNCHANGED dispatchRest

\* interrupt() sets the session's token while the tools run
DispatchCancel ==
    /\ dispatch.pc \notin {"idle", "iter_top", "returned"}
    /\ ~dispatch.stop
    /\ dispatch' = [dispatch EXCEPT !.stop = TRUE]
    /\ UNCHANGED dispatchRest

DispatchNext ==
    \/ \E n \in 1..MaxCallsPerAnswer : \E calls \in [1..n -> ToolCalls] :
          DispatchRecord(calls)
    \/ DispatchTop
    \/ DispatchRoute
    \/ DispatchYield
    \/ DispatchWrite
    \/ DispatchCancel

SpecTools == DispatchInit /\ [][DispatchNext]_vars

\* the call fails: nothing routes its name, its arguments are not a JSON
\* object, or the routed function raises
FailingCall(call) ==
    \/ call.name = "no_such_tool"
    \/ call.arguments # "{\"file_path\": \"a\"}"
    \/ call.behaviour = "raises"

ResultTexts ==
    {ToolOutput, ToolCancelled} \cup {ErrorUnknownTool(n) : n \in ToolNames}
        \cup {ErrorExecuting(n) : n \in ToolNames}

\* the tool events yielded so far, and the tool messages written so far
ToolEvents == SelectSeq(dispatch.yielded, LAMBDA e : e.type = "tool")
ToolMessages == SelectSeq(dispatch.wrote, LAMBDA m : m.role = "tool")

\* C29: whatever calls the LLM made (unknown names, arguments that are not
\* valid JSON, functions that raise), every call that was dispatched has a
\* text result that is yielded as the tool event and appended as the tool
\* message of that call, no error event is yielded, and, unless the turn was
\* cancelled, every call is dispatched and the loop reaches its next iteration.
C29_ToolFailureContained ==
    /\ \A i \in 1..Len(dispatch.yielded) : dispatch.yielded[i].type # "error"
    /\ \A k \in 1..Len(ToolMessages) :
          /\ ToolMessages[k].tool_call_id = k
          /\ ToolEvents[k].content \in ResultTexts
          /\ ToolMessages[k].content = WithPlanHint(ToolEvents[k].content)
    /\ dispatch.pc = "returned" => dispatch.stop
    /\ dispatch.pc = "iter_top" =>
          /\ Len(ToolMessages) = Len(dispatch.calls)
          /\ Len(ToolEvents) = Len(dispatch.calls)

\* an answer with two failing calls (one of them raising) was dispatched to
\* the end without a cancel
C29_Witness ==
    /\ dispatch.pc = "iter_top"
    /\ ~dispatch.stop
    /\ Len(dispatch.calls) = 2
    /\ \A k \in 1..2 : FailingCall(dispatch.calls[k])
    /\ dispatch.calls[1].behaviour = "raises"
    /\ dispatch.calls[2].name = "no_such_tool"
    /\ dispatch.calls[2].arguments = "{bad"


\* ---------------------------------------------------------------------------
\* C30 (SpecMem): the system messages of the context
\* ---------------------------------------------------------------------------

\* the system contents that tell of a Supervisor or a Sentinel event
SignalContents == {SupervisorIntervention, SupervisorNote, SentinelAlert}

\* the filter the claim describes
SignalsEvent(m) == m.role # "system" \/ m.content \in SignalContents

\* the contents of the system messages of a list, in order
SystemContentsOf(ms) ==
    LET sel == SelectSeq(ms, LAMBDA m : m.role = "system")
    IN  [i \in 1..Len(sel) |-> sel[i].content]

\* C30: the system messages of the context are those of the window taken
\* over the conversational messages and the system messages that tell of a
\* Supervisor or a Sentinel event: sentinel alerts and Supervisor
\* instructions are in the context, other system messages are not and take
\* no place in the window.
C30_SystemFilter ==
    memPhase = "read" =>
        SystemContentsOf(context) =
            SystemContentsOf(LastK(SelectSeq(full_log, SignalsEvent), window_size))


(***************************************************************************)
(* SpecPrompt: the messages list of one turn of HostAgent.chat.  The       *)
(* outer (Supervisor) loop builds the list from the system prompt and      *)
(* get_active_context; the ReAct loop hands it to every LLM call and       *)
(* appends to it what it writes to the log.  `sent` keeps, for the last    *)
(* LLM call, the list it was given, the list a rebuild at that moment      *)
(* would have given, and whether it was the first call after an            *)
(* INCOMPLETE verdict.                                                     *)
(***************************************************************************)
\* longest log SpecPrompt builds
MaxPromptLog == 12
\* user/assistant pairs of the longer of the two logs a turn starts on
EarlierPairs == 4

\* {"role": "system", "content": dynamic_sys_prompt}
DynamicSysPrompt == Msg("system", "<system prompt>", <<>>, NoCall)

\* [{"role": "system", "content": dynamic_sys_prompt}] + session_memory.get_active_context()
BuildMessages(log, size) == <<DynamicSysPrompt>> \o ActiveContext(log, size)

RECURSIVE EarlierTurns(_)
\* the log n earlier turns left: a user message and a prose answer each
EarlierTurns(n) ==
    IF n = 0 THEN <<>>
    ELSE AppendMessage(AppendMessage(EarlierTurns(n-1), UserMsg, MemNow), AiMsg("a"), MemNow)

\* the logs a turn starts on
PriorLogs == {EarlierTurns(0), EarlierTurns(EarlierPairs)}

\* no LLM call yet
NoSend == [n |-> 0, messages |-> <<>>, context |-> <<>>, reentered |-> FALSE]

\* client.chat.completions.create(messages=messages, ...): the call's input
SendMessages(p) ==
    [n |-> 1, messages |-> p.messages, context |-> BuildMessages(p.log, window_size),
     reentered |-> p.reentered]

PromptInit ==
    /\ prompt = PromptIdle
    /\ rag_store = RagStoreIdle
    /\ budget = NoBudget
    /\ SrvQuiet
    /\ full_log = <<>>
    /\ window_size = DefaultWindow
    /\ context = <<>>
    /\ memPhase = "idle"
    /\ loop = LoopIdle
    /\ rag = RagIdle
    /\ skill = SkillIdle
    /\ sentinel_engine = EngineIdle
    /\ disk = DiskIdle
    /\ ws = WsIdle
    /\ mem_log = MemLogIdle
    /\ agent = AgentIdle
    /\ dispatch = DispatchIdle

\* chat() up to the Supervisor loop: add_user_message, supervisor_loops = 0
PromptStart(prior) ==
    /\ prompt.pc = "idle"
    /\ prompt' = [prompt EXCEPT !.pc = "outer",
                                !.log = AppendMessage(prior, UserMsg, MemNow),
                                !.supervisor_loops = 0]
    /\ UNCHANGED promptRest

\* top of `while supervisor_loops <= MAX_SUPERVISOR_LOOPS`: the list is built
PromptOuter ==
    /\ prompt.pc = "outer"
    /\ prompt' = IF prompt.supervisor_loops <= MAX_SUPERVISOR_LOOPS
                 THEN [prompt EXCEPT !.pc = "inner",
                                     !.messages = BuildMessages(prompt.log, window_size),
                                     !.current_iteration = 0,
                                     !.is_generation_finished = FALSE]
                 ELSE [prompt EXCEPT !.pc = "final"]
    /\ UNCHANGED promptRest

\* top of `while current_iteration < MAX_TOOL_ITERATIONS`, the token clear
PromptInner ==
    /\ prompt.pc = "inner"
    /\ prompt' = IF prompt.current_iteration < MAX_TOOL_ITERATIONS
                 THEN [prompt EXCEPT !.pc = "create",
                                     !.current_iteration = prompt.current_iteration + 1]
                 ELSE [prompt EXCEPT !.pc = "gate"]
    /\ UNCHANGED promptRest

\* top of the ReAct loop with the cancel token set: the turn returns
PromptInterrupted ==
    /\ prompt.pc = "inner"
    /\ prompt' = [prompt EXCEPT !.pc = "ended"]
    /\ UNCHANGED promptRest

\* the LLM call fails (create or the stream raises): the turn returns
PromptError ==
    /\ prompt.pc = "create"
    /\ prompt' = [prompt EXCEPT !.pc = "ended", !.sent = SendMessages(prompt),
                                !.reentered = FALSE]
    /\ UNCHANGED promptRest

\* the LLM answers with prose: add_ai_message, is_generation_finished, break
PromptProse ==
    /\ prompt.pc = "create"
    /\ Len(prompt.log) < MaxPromptLog
    /\ prompt' = [prompt EXCEPT !.pc = "gate", !.sent = SendMessages(prompt),
                                !.reentered = FALSE,
                                !.log = AppendMessage(prompt.log, AiMsg("a"), MemNow),
                                !.is_generation_finished = TRUE]
    /\ UNCHANGED promptRest

\* the LLM answers with tool calls: add_ai_tool_call and messages.append
PromptCalls(calls) ==
    /\ prompt.pc = "create"
    /\ Len(prompt.log) + 1 + Len(calls) <= MaxPromptLog
    /\ prompt' = [prompt EXCEPT !.pc = "tool", !.sent = SendMessages(prompt),
                                !.reentered = FALSE,
                                !.log = AppendMessage(prompt.log, AiToolCallMsg("a", calls), MemNow),
                                !.messages = Append(prompt.messages, AiToolCallMsg("a", calls)),
                                !.calls = calls,
                                !.tc = 1]
    /\ UNCHANGED promptRest

\* one pass of `for tc in active_tool_calls`: add_tool_message and
\* messages.append of the result; after the last call the loop goes on
PromptTool ==
    /\ prompt.pc = "tool"
    /\ LET m == ToolMsg(WithPlanHint(ToolOutput), prompt.calls[prompt.tc])
       IN  prompt' = [prompt EXCEPT !.log = AppendMessage(prompt.log, m, MemNow),
                                    !.messages = Append(prompt.messages, m),
                                    !.tc = prompt.tc + 1,
                                    !.pc = IF prompt.tc = Len(prompt.calls)
                                           THEN "inner" ELSE "tool"]
    /\ UNCHANGED promptRest

\* the Supervisor check says INCOMPLETE: the counter, add_system_message, continue
PromptIncomplete ==
    /\ prompt.pc = "gate"
    /\ prompt.is_generation_finished
    /\ prompt.supervisor_loops < MAX_SUPERVISOR_LOOPS
    /\ Len(prompt.log) < MaxPromptLog
    /\ prompt' = [prompt EXCEPT !.pc = "outer",
                                !.supervisor_loops = prompt.supervisor_loops + 1,
                                !.log = AppendMessage(prompt.log, SystemMsg(SupervisorIntervention), MemNow),
                                !.reentered = TRUE]
    /\ UNCHANGED promptRest

\* every other way through the Supervisor check: break
PromptBreak ==
    /\ prompt.pc = "gate"
    /\ prompt' = [prompt EXCEPT !.pc = "final"]
    /\ UNCHANGED promptRest

\* the end of chat(): summary and memory extraction leave the list alone
PromptFinal ==
    /\ prompt.pc = "final"
    /\ prompt' = [prompt EXCEPT !.pc = "ended"]
    /\ UNCHANGED promptRest

PromptNext ==
    \/ \E prior \in PriorLogs : PromptStart(prior)
    \/ PromptOuter
    \/ PromptInner
    \/ PromptInterrupted
    \/ PromptError
    \/ PromptProse
    \/ \E calls \in CallLists : PromptCalls(calls)
    \/ PromptTool
    \/ PromptIncomplete
    \/ PromptBreak
    \/ PromptFinal

SpecPrompt == PromptInit /\ [][PromptNext]_vars

\* the Supervisor's instruction is in the list
HasIntervention(messages) ==
    \E i \in 1..Len(messages) :
        messages[i].role = "system" /\ messages[i].content = SupervisorIntervention

\* C31: the first LLM call of the ReAct loop re-entered after an INCOMPLETE
\* verdict is given the Supervisor instruction that was written to the log
C31_InterventionSent ==
    (prompt.sent.n > 0 /\ prompt.sent.reentered) => HasIntervention(prompt.sent.messages)

\* C32: every LLM call is given the system prompt followed by the active
\* context of the log as it is when the call is made
C32_FreshMessages ==
    prompt.sent.n > 0 => prompt.sent.messages = prompt.sent.context


C34_SkillPerSession ==
    /\ skill.built.session_id # NoSession
         => skill.built.skill_section
              = SkillSection(skill.built.own, skill.loaded_skills)
    /\ skill.fresh
         => skill.current_tools = GetToolDefinitions(NoSkill, skill.loaded_skills)


\* C35: no sentinel of any kind invokes the trigger callback between the
\* return of stop() and the next start()
C35_QuietAfterStop ==
    sentinel_engine.last_trigger.n > 0 => sentinel_engine.last_trigger.running

\* the registrations of a kind: scheduled jobs, watches, hotkeys
Registrations(kind) ==
    CASE kind = "time" -> sentinel_engine.jobs
      [] kind = "file" -> sentinel_engine.watches
      [] OTHER -> sentinel_engine.hotkeys

\* C36: right after an add or a remove on the started engine the file holds
\* the engine's sentinels and the affected kind has exactly one registration
\* per sentinel of the kind and none for any other id
C36_RegistrationsMatch ==
    sentinel_engine.affected # "" =>
        /\ sentinel_engine.file = [exists |-> TRUE, data |-> sentinel_engine.sentinels]
        /\ Registrations(sentinel_engine.affected)
             = IdsOf(sentinel_engine.sentinels[sentinel_engine.affected])

\* C40: an add returns an id its kind does not hold yet, makes the kind one
\* sentinel larger and leaves the sentinels there were as they are, of that
\* kind and of the others
C40_AddIsFresh ==
    [][\A kind \in Kinds, p \in Payloads :
         (CanOperate /\ sentinel_engine'.sentinels
                          = AddUnder(sentinel_engine, kind, p).sentinels
                     /\ sentinel_engine'.ops = sentinel_engine.ops + 1
                     /\ sentinel_engine'.affected = kind)
         => /\ ~HasId(sentinel_engine.sentinels[kind], sentinel_engine.clock)
            /\ Cardinality(sentinel_engine'.sentinels[kind])
                 = Cardinality(sentinel_engine.sentinels[kind]) + 1
            /\ sentinel_engine.sentinels[kind] \subseteq sentinel_engine'.sentinels[kind]
            /\ \A other \in Kinds \ {kind} :
                 sentinel_engine'.sentinels[other] = sentinel_engine.sentinels[other]]_vars


\* C37: after a learn that failed the skill's directory does not exist and
\* the registry and the config's imported skills are what they were, and a
\* learn is refused as "already exists" only for a skill the config lists
C37_LearnRollsBack ==
    /\ skill.learned.status = LearnFailed
         => /\ skill.learned.skill_name \notin skill.dirs
            /\ skill.loaded_skills = skill.learned.loaded_skills
            /\ skill.imported_skills = skill.learned.imported_skills
    /\ skill.learned.status = LearnExists
         => skill.learned.skill_name \in skill.learned.imported_skills


(***************************************************************************)
(* SpecRagThreads: add_memory, delete_memory and _search_hybrid_bm25       *)
(* called by concurrent workers (the executor's turns and the memory       *)
(* extraction threads) on the one RAGStore.  The store takes no lock, so   *)
(* each call is a sequence of steps on the shared fields: collection,      *)
(* bm25_index (the corpus the index was built from; <<>> for None) and     *)
(* memory_docs_cache.  Records are their ids.  mapped keeps, for the last  *)
(* BM25 hit a search looked up, the record that was scored and the record  *)
(* the cache gave for its index.                                           *)
(***************************************************************************)
MaxIndexOps == 3
\* the records of the collection when the workers begin, and the new ones
StoredRecords == <<1, 2>>
NewRecords == {3}

\* collection.delete(ids=[r])
Without(seq, r) == SelectSeq(seq, LAMBDA x : x # r)

RagThreadsInit ==
    /\ rag_store = [RagStoreIdle EXCEPT !.collection = StoredRecords,
                                        !.bm25_index = StoredRecords,
                                        !.memory_docs_cache = StoredRecords,
                                        !.used = {1, 2}]
    /\ prompt = PromptIdle
    /\ budget = NoBudget
    /\ SrvQuiet
    /\ full_log = <<>>
    /\ window_size = DefaultWindow
    /\ context = <<>>
    /\ memPhase = "idle"
    /\ loop = LoopIdle
    /\ rag = RagIdle
    /\ skill = SkillIdle
    /\ sentinel_engine = EngineIdle
    /\ disk = DiskIdle
    /\ ws = WsIdle
    /\ mem_log = MemLogIdle
    /\ agent = AgentIdle
    /\ dispatch = DispatchIdle

\* a worker may begin a call
CanCall(w) == rag_store.worker[w].pc = "idle" /\ rag_store.ops < MaxIndexOps

\* add_memory up to collection.add: the record is in the collection
AddBegins(w, r) ==
    /\ CanCall(w)
    /\ r \notin rag_store.used
    /\ rag_store' = [rag_store EXCEPT
                       !.collection = Append(@, r), !.used = @ \cup {r},
                       !.ops = @ + 1,
                       !.worker[w] = [WorkerIdle EXCEPT !.op = "add", !.pc = "count"]]
    /\ UNCHANGED rag_storeRest

\* delete_memory up to collection.delete: the record has left the collection
DeleteBegins(w, r) ==
    /\ CanCall(w)
    /\ InSeq(r, rag_store.collection)
    /\ rag_store' = [rag_store EXCEPT
                       !.collection = Without(@, r), !.ops = @ + 1,
                       !.worker[w] = [WorkerIdle EXCEPT !.op = "delete", !.pc = "count"]]
    /\ UNCHANGED rag_storeRest

\* _rebuild_bm25_index: collection.count(); an empty collection clears the index
RebuildCount(w) ==
    /\ rag_store.worker[w].pc = "count"
    /\ rag_store' = IF rag_store.collection = <<>>
                    THEN [rag_store EXCEPT !.bm25_index = <<>>,
                                           !.worker[w].pc = "clear"]
                    ELSE [rag_store EXCEPT !.worker[w].pc = "get"]
    /\ UNCHANGED rag_storeRest

\* _rebuild_bm25_index, empty collection: memory_docs_cache = [], return
RebuildClear(w) ==
    /\ rag_store.worker[w].pc = "clear"
    /\ rag_store' = [rag_store EXCEPT !.memory_docs_cache = <<>>,
                                      !.worker[w] = WorkerIdle]
    /\ UNCHANGED rag_storeRest

\* _rebuild_bm25_index: all_data = collection.get()
RebuildGet(w) ==
    /\ rag_store.worker[w].pc = "get"
    /\ rag_store' = [rag_store EXCEPT !.worker[w].all_data = rag_store.collection,
                                      !.worker[w].pc = "cache"]
    /\ UNCHANGED rag_storeRest

\* _rebuild_bm25_index: memory_docs_cache is emptied and filled from all_data
RebuildCache(w) ==
    /\ rag_store.worker[w].pc = "cache"
    /\ rag_store' = [rag_store EXCEPT
                       !.memory_docs_cache = rag_store.worker[w].all_data,
                       !.worker[w].pc = "index"]
    /\ UNCHANGED rag_storeRest

\* _rebuild_bm25_index: bm25_index = BM25(corpus); the call returns
RebuildIndex(w) ==
    /\ rag_store.worker[w].pc = "index"
    /\ rag_store' = [rag_store EXCEPT
                       !.bm25_index = rag_store.worker[w].all_data,
                       !.worker[w] = WorkerIdle]
    /\ UNCHANGED rag_storeRest

\* _search_hybrid_bm25: bm25_index.search scores the corpus of the index and
\* returns a hit (idx, score)
SearchScores(w, idx) ==
    /\ CanCall(w)
    /\ idx \in 1..Len(rag_store.bm25_index)
    /\ rag_store' = [rag_store EXCEPT
                       !.ops = @ + 1,
                       !.worker[w] = [WorkerIdle EXCEPT
                                        !.op = "search", !.pc = "map", !.idx = idx,
                                        !.scored = rag_store.bm25_index[idx]]]
    /\ UNCHANGED rag_storeRest

\* _search_hybrid_bm25: the hit is looked up in memory_docs_cache when its
\* index is inside the list
SearchMaps(w) ==
    /\ rag_store.worker[w].pc = "map"
    /\ LET hit == rag_store.worker[w]
       IN rag_store' =
            IF hit.idx <= Len(rag_store.memory_docs_cache)
            THEN [rag_store EXCEPT
                    !.mapped = [n |-> 1, scored |-> hit.scored,
                                id |-> rag_store.memory_docs_cache[hit.idx]],
                    !.worker[w] = WorkerIdle]
            ELSE [rag_store EXCEPT !.worker[w] = WorkerIdle]
    /\ UNCHANGED rag_storeRest

RagThreadsNext ==
    \/ \E w \in Workers, r \in NewRecords : AddBegins(w, r)
    \/ \E w \in Workers, r \in 1..3 : DeleteBegins(w, r)
    \/ \E w \in Workers : RebuildCount(w)
    \/ \E w \in Workers : RebuildClear(w)
    \/ \E w \in Workers : RebuildGet(w)
    \/ \E w \in Workers : RebuildCache(w)
    \/ \E w \in Workers : RebuildIndex(w)
    \/ \E w \in Workers, idx \in 1..3 : SearchScores(w, idx)
    \/ \E w \in Workers : SearchMaps(w)

SpecRagThreads == RagThreadsInit /\ [][RagThreadsNext]_vars

\* no add_memory or delete_memory is in progress
NoWriter == \A w \in Workers : rag_store.worker[w].op \notin {"add", "delete"}

\* C38: a search maps every BM25 hit to the record that was scored, and
\* whenever no add or delete is in progress the index and its cache hold
\* exactly the records of the collection
C38_IndexConsistent ==
    /\ rag_store.mapped.n > 0 => rag_store.mapped.id = rag_store.mapped.scored
    /\ NoWriter => /\ rag_store.bm25_index = rag_store.collection
                   /\ rag_store.memory_docs_cache = rag_store.collection


\* C39 (checked in Spec): a cancel token that is set while a turn of its
\* session is inside chat() was set for that turn, which cleared it when it
\* began; it stays set for as long as the turn has not left chat(), whatever
\* other turns of the session do
C39_CancelNotLost ==
    [][\A t \in Turns :
          (Inside(t) /\ StopIsSet(t) /\ turn'[t].pc = turn[t].pc)
              => interrupt_events'[turn[t].session_id] = "set"
      ]_vars

====
